---- MODULE Spec2Model ----
(***************************************************************************)
(* Model of the drum-box pattern state store (js/state.js).                *)
(*                                                                         *)
(* The store is one mutable object `_state`; every public operation is one *)
(* action that models the whole call, from entry to return.  Under Spec    *)
(* the calls return normally; SpecThrow adds an update whose mutator       *)
(* throws, SpecKeys adds step edits through a key the pattern object       *)
(* inherits, SpecNotation applies the transcription of notation.js.        *)
(*                                                                         *)
(* Representation                                                          *)
(*   - numbers are integers; NaN stands for every value v for which        *)
(*     Number.isFinite(Number(v)) is false (undefined, NaN, 'abc', ...).   *)
(*   - a JS array index i (0-based) is position i+1 of a TLA+ sequence.    *)
(*   - a raw (caller supplied) array holds numbers, truthy iff non-zero;   *)
(*     a stored pattern array holds booleans.                              *)
(*   - a track is represented by its id (label/shortLabel carry no logic). *)
(***************************************************************************)
EXTENDS Integers, Sequences, FiniteSets, TLC

\* ------------------------------------------------------------------------
\* Program constants
\* ------------------------------------------------------------------------
DEFAULT_STEPS == 16
DEFAULT_BPM == 90
DEFAULT_TRACKS == <<"hh", "sn", "bd">>
BPM_MIN == 40
BPM_MAX == 240
\* patternRevision is a uint32 (>>> 0), kept as two 16-bit halves:
\* the value is hi * 2^16 + lo
Half16 == 65536

\* Non-finite / non-numeric marker, and "key not present in the patch".
NaN == -1000001
ABSENT == -1000002

\* ------------------------------------------------------------------------
\* Bounds of the model
\* ------------------------------------------------------------------------
\* patternRevision values explored: 0..MaxRev and 2^32 - 1 (the wrap).
MaxRev == 1
\* largest in-range step index a caller passes (toggleStep, setCurrentStep,
\* an in-place edit)
MaxIndexArg == 5

\* ------------------------------------------------------------------------
\* Small helpers of the representation
\* ------------------------------------------------------------------------
Range(seq) == {seq[i] : i \in 1..Len(seq)}
Max2(a, b) == IF a >= b THEN a ELSE b
Min2(a, b) == IF a <= b THEN a ELSE b
isFinite(v) == v # NaN /\ v # ABSENT

\* String.prototype.trim on the id strings the model uses.
Trim(str) ==
    CASE str = " hh " -> "hh"
      [] str = " " -> ""
      [] OTHER -> str

\* A caller supplied array / object that is not there at all.
NoArray == [isArray |-> FALSE, v |-> <<>>]
RawArr(seq) == [isArray |-> TRUE, v |-> seq]

\* calls of one kind logged between two display frames
MaxWindow == 2
\* calls of a wrapper between two display frames, and in one burst
MaxCalls == 3
\* revisions reached by the page
MaxAppRev == 2

\* ------------------------------------------------------------------------
\* Helpers internos
\* ------------------------------------------------------------------------
toInt(v, fallback) == IF isFinite(v) THEN v ELSE fallback

toPosInt(v, fallback, min) ==
    LET n == toInt(v, fallback)
    IN IF isFinite(n) THEN Max2(min, n) ELSE fallback

\* arr: [isArray, v]; out[i] = !!arr[i] for i < len, false when arr is no array
toBoolArray(arr, len) ==
    [i \in 1..len |-> IF arr.isArray /\ i <= Len(arr.v) THEN arr.v[i] # 0 ELSE FALSE]

\* faulty variant: an id already seen is kept again
RECURSIVE cleanTracks_NoSeen(_, _, _)
cleanTracks_NoSeen(entries, clean, seen) ==
    IF entries = <<>> THEN clean
    ELSE LET t == Head(entries)
             id == Trim(t.id)
         IN IF ~t.isObj \/ id = ""
            THEN cleanTracks_NoSeen(Tail(entries), clean, seen)
            ELSE cleanTracks_NoSeen(Tail(entries), Append(clean, id), seen)

\* raw tracks: [isArray, v] with v a sequence of entries [isObj, id]
RECURSIVE cleanTracks(_, _, _)
cleanTracks(entries, clean, seen) ==
    IF entries = <<>> THEN clean
    ELSE LET t == Head(entries)
             id == Trim(t.id)
         IN IF ~t.isObj \/ id = "" \/ id \in seen
            THEN cleanTracks(Tail(entries), clean, seen)
            ELSE cleanTracks(Tail(entries), Append(clean, id), seen \cup {id})

normalizeTracks(raw) ==
    IF ~raw.isArray \/ Len(raw.v) = 0 THEN DEFAULT_TRACKS
    ELSE LET clean == cleanTracks(raw.v, <<>>, {})
         IN IF Len(clean) > 0 THEN clean ELSE DEFAULT_TRACKS

buildEmptyPattern(trackIds, nsteps) ==
    [id \in Range(trackIds) |-> [i \in 1..nsteps |-> FALSE]]

\* raw pattern: [isObj, m] with m a function from ids to raw arrays
normalizePattern(inputPattern, trks, nsteps) ==
    [id \in Range(trks) |->
        toBoolArray(IF inputPattern.isObj /\ id \in DOMAIN inputPattern.m
                    THEN inputPattern.m[id] ELSE NoArray, nsteps)]

\* faulty variant: the bar count is left out of the product
computeSteps_NoBars(bpbIn, spbIn, barsIn) ==
    toPosInt(bpbIn, 4, 1) * toPosInt(spbIn, 4, 1)

computeSteps(bpbIn, spbIn, barsIn) ==
    LET bpb == toPosInt(bpbIn, 4, 1)
        spb == toPosInt(spbIn, 4, 1)
        brs == toPosInt(barsIn, 1, 1)
    IN bpb * spb * brs

getTrackIds(trks) ==
    SelectSeq([i \in 1..Len(trks) |-> Trim(trks[i])], LAMBDA id : id # "")

\* faulty variant: the copy loop stops one cell early
resizePatternKeepNotes_DropLast(prevPattern, trks, prevSteps, nextSteps) ==
    [id \in Range(trks) |->
        LET src == IF id \in DOMAIN prevPattern THEN prevPattern[id] ELSE <<>>
            limit == Min2(prevSteps, nextSteps) - 1
        IN [i \in 1..nextSteps |-> IF i <= limit /\ i <= Len(src) THEN src[i] ELSE FALSE]]

\* prevPattern: a stored pattern (function id -> boolean sequence), or {} (<<>>)
resizePatternKeepNotes(prevPattern, trks, prevSteps, nextSteps) ==
    [id \in Range(trks) |->
        LET src == IF id \in DOMAIN prevPattern THEN prevPattern[id] ELSE <<>>
            limit == Min2(prevSteps, nextSteps)
        IN [i \in 1..nextSteps |-> IF i <= limit /\ i <= Len(src) THEN src[i] ELSE FALSE]]

clamp(n, min, max) == Max2(min, Min2(max, n))

\* uint32 arithmetic of  (x + 1) >>> 0  and  Number(x) >>> 0
U32(hi, lo) == [hi |-> hi, lo |-> lo]
U32Zero == U32(0, 0)
U32Max == U32(Half16 - 1, Half16 - 1)
U32Inc(u) ==
    IF u.lo + 1 < Half16 THEN U32(u.hi, u.lo + 1)
    ELSE U32((u.hi + 1) % Half16, 0)
ToUint32(n) ==
    IF n >= 0 THEN U32((n \div Half16) % Half16, n % Half16)
    ELSE LET m == (-n) - 1
         IN U32(Half16 - 1 - ((m \div Half16) % Half16), Half16 - 1 - (m % Half16))

\* ------------------------------------------------------------------------
\* The stored state as the JS values the normaliser reads
\* ------------------------------------------------------------------------
rawTracks(trks) == RawArr([i \in 1..Len(trks) |-> [isObj |-> TRUE, id |-> trks[i]]])
rawPattern(pat) ==
    [isObj |-> TRUE,
     m |-> [id \in DOMAIN pat |-> RawArr([i \in 1..Len(pat[id]) |-> IF pat[id][i] THEN 1 ELSE 0])]]

\* ------------------------------------------------------------------------
\* Event system: what emit() delivers, and touchPattern
\* ------------------------------------------------------------------------
Evt(type, st) == [type |-> type, patternRevision |-> st.patternRevision]

\* faulty variant: the increment is not reduced to 32 bits
touchPattern_NoWrap(st) ==
    [st EXCEPT !.patternRevision =
        IF @.lo + 1 < Half16 THEN U32(@.hi, @.lo + 1) ELSE U32(@.hi + 1, 0)]

\* returns the state with the revision bumped; the caller appends the event
touchPattern(st) ==
    [st EXCEPT !.patternRevision = U32Inc(st.patternRevision)]

\* ------------------------------------------------------------------------
\* Normalización global
\* ------------------------------------------------------------------------
\* faulty variant: the cursor is not checked against the step count
ensureStateShape_NoCursorClamp(r) ==
    LET trks == normalizeTracks(r.tracks)
        brs == toPosInt(r.bars, 1, 1)
        bpb == toPosInt(r.beatsPerBar, 4, 1)
        spb == toPosInt(r.stepsPerBeat, 4, 1)
        nsteps == computeSteps(bpb, spb, brs)
        tempo == clamp(IF isFinite(r.bpm) /\ r.bpm # 0 THEN r.bpm ELSE DEFAULT_BPM,
                       BPM_MIN, BPM_MAX)
        cur0 == IF isFinite(r.currentStep) THEN r.currentStep ELSE -1
        cur == IF cur0 < -1 THEN -1 ELSE cur0
        rev == IF r.patternRevision.stored THEN r.patternRevision.u
               ELSE IF isFinite(r.patternRevision.n) THEN ToUint32(r.patternRevision.n)
               ELSE U32Zero
    IN [tracks |-> trks, bars |-> brs, beatsPerBar |-> bpb, stepsPerBeat |-> spb,
        steps |-> nsteps, bpm |-> tempo, currentStep |-> cur,
        patternRevision |-> rev,
        pattern |-> normalizePattern(r.pattern, trks, nsteps)]

\* faulty variant: a step count found on the object is kept
ensureStateShape_KeepSteps(r) ==
    LET trks == normalizeTracks(r.tracks)
        brs == toPosInt(r.bars, 1, 1)
        bpb == toPosInt(r.beatsPerBar, 4, 1)
        spb == toPosInt(r.stepsPerBeat, 4, 1)
        nsteps == toPosInt(r.steps, computeSteps(bpb, spb, brs), 1)
        tempo == clamp(IF isFinite(r.bpm) /\ r.bpm # 0 THEN r.bpm ELSE DEFAULT_BPM,
                       BPM_MIN, BPM_MAX)
        cur0 == IF isFinite(r.currentStep) THEN r.currentStep ELSE -1
        cur == IF cur0 < -1 \/ cur0 >= nsteps THEN -1 ELSE cur0
        rev == IF r.patternRevision.stored THEN r.patternRevision.u
               ELSE IF isFinite(r.patternRevision.n) THEN ToUint32(r.patternRevision.n)
               ELSE U32Zero
    IN [tracks |-> trks, bars |-> brs, beatsPerBar |-> bpb, stepsPerBeat |-> spb,
        steps |-> nsteps, bpm |-> tempo, currentStep |-> cur,
        patternRevision |-> rev,
        pattern |-> normalizePattern(r.pattern, trks, nsteps)]

\* r: the fields of _state as found (tracks, pattern raw; numbers possibly NaN)
ensureStateShape(r) ==
    LET trks == normalizeTracks(r.tracks)
        brs == toPosInt(r.bars, 1, 1)
        bpb == toPosInt(r.beatsPerBar, 4, 1)
        spb == toPosInt(r.stepsPerBeat, 4, 1)
        nsteps == computeSteps(bpb, spb, brs)
        tempo == clamp(IF isFinite(r.bpm) /\ r.bpm # 0 THEN r.bpm ELSE DEFAULT_BPM,
                       BPM_MIN, BPM_MAX)
        cur0 == IF isFinite(r.currentStep) THEN r.currentStep ELSE -1
        cur == IF cur0 < -1 \/ cur0 >= nsteps THEN -1 ELSE cur0
        rev == IF r.patternRevision.stored THEN r.patternRevision.u
               ELSE IF isFinite(r.patternRevision.n) THEN ToUint32(r.patternRevision.n)
               ELSE U32Zero
    IN [tracks |-> trks, bars |-> brs, beatsPerBar |-> bpb, stepsPerBeat |-> spb,
        steps |-> nsteps, bpm |-> tempo, currentStep |-> cur,
        patternRevision |-> rev,
        pattern |-> normalizePattern(r.pattern, trks, nsteps)]

\* the patternRevision field as found: the stored uint32, or a number a
\* caller has written
revStored(u) == [stored |-> TRUE, n |-> 0, u |-> u]
revWritten(n) == [stored |-> FALSE, n |-> n, u |-> U32Zero]

\* the live _state object, as ensureStateShape(_state) reads it
asFound(st) ==
    [tracks |-> rawTracks(st.tracks), bars |-> st.bars, beatsPerBar |-> st.beatsPerBar,
     stepsPerBeat |-> st.stepsPerBeat, steps |-> st.steps, bpm |-> st.bpm,
     currentStep |-> st.currentStep, patternRevision |-> revStored(st.patternRevision),
     pattern |-> rawPattern(st.pattern)]

\* ------------------------------------------------------------------------
\* Estado interno
\* ------------------------------------------------------------------------
VARIABLES tracks, bars, beatsPerBar, stepsPerBeat, steps, bpm, currentStep,
          patternRevision, pattern,
          \* the indexed cells written on the object that _state.pattern[id]
          \* reaches through the prototype chain (index -> boolean)
          inherited,
          \* notation.js: the step array handed to buildVoice and the notes
          \* it returned
          voiceSteps, voiceNotes,
          \* notation.js: lastHash, and the notes of the three voices of the
          \* last drawing
          lastHash, score,
          \* app.js: the gate of renderNotation, and whether the state
          \* collaborator exposes patternRevision
          lastPatternRev, lastPatternSig, exposesRevision,
          \* rafThrottle(fn): queued and lastArgs of the wrapper, and the
          \* callbacks it has handed to requestAnimationFrame and not yet run
          queued, lastArgs, rafCallbacks,
          \* the calls made since the last display frame
          win,
          \* a rafThrottle wrapper under observation: the arguments of the
          \* calls of the current window, and the runs of the wrapped function
          calls, fnRuns,
          \* debounce(fn, wait): the handle t (timerId) and the timers pending in the
          \* browser; the values of the calls of the current burst, and the
          \* values Audio.setBpm received from it; isPlaying of the state
          timerId, timers, burst, engineCalls, isPlaying,
          \* notation.js buildVoice, one loop iteration at a time: the locals
          \* of the call in progress
          scan,
          \* the page outside the store: the text of the tempo field, the
          \* togglePlay calls awaiting Audio.start(), and Tone.Transport
          page

notationVars == <<voiceSteps, voiceNotes>>
appVars == <<lastHash, score, lastPatternRev, lastPatternSig, exposesRevision,
             queued, lastArgs, rafCallbacks, win>>
schedVars == <<calls, fnRuns, timerId, timers, burst, engineCalls, isPlaying>>
stepVars == <<scan, page>>

vars == <<tracks, bars, beatsPerBar, stepsPerBeat, steps, bpm, currentStep,
          patternRevision, pattern, inherited, voiceSteps, voiceNotes,
          lastHash, score, lastPatternRev, lastPatternSig, exposesRevision,
          queued, lastArgs, rafCallbacks, win,
          calls, fnRuns, timerId, timers, burst, engineCalls, isPlaying,
          scan, page>>

\* _state as one record
State ==
    [tracks |-> tracks, bars |-> bars, beatsPerBar |-> beatsPerBar,
     stepsPerBeat |-> stepsPerBeat, steps |-> steps, bpm |-> bpm,
     currentStep |-> currentStep, patternRevision |-> patternRevision,
     pattern |-> pattern]

InitialState ==
    ensureStateShape(
        [tracks |-> rawTracks(DEFAULT_TRACKS), bars |-> 1, beatsPerBar |-> 4,
         stepsPerBeat |-> 4, steps |-> DEFAULT_STEPS, bpm |-> DEFAULT_BPM,
         currentStep |-> -1, patternRevision |-> revWritten(0),
         pattern |-> rawPattern(buildEmptyPattern(DEFAULT_TRACKS, DEFAULT_STEPS))])

\* ------------------------------------------------------------------------
\* API pública.  Every operation maps _state (st) and its arguments to the
\* state at return (st) and the events emitted, in order (ev).
\* ------------------------------------------------------------------------
Ret(st, ev) == [st |-> st, ev |-> ev, inherited |-> inherited]
\* a call that also hands a value back and may have written an inherited cell
RetV(st, ev, val, inh) == [st |-> st, ev |-> ev, val |-> val, inherited |-> inh]

\* Object.assign(_state, patch): keys present in the patch overwrite
assign(found, patch) ==
    [tracks |-> IF patch.tracks.has THEN [isArray |-> patch.tracks.isArray, v |-> patch.tracks.v]
                ELSE found.tracks,
     bars |-> IF patch.bars = ABSENT THEN found.bars ELSE patch.bars,
     beatsPerBar |-> IF patch.beatsPerBar = ABSENT THEN found.beatsPerBar ELSE patch.beatsPerBar,
     stepsPerBeat |-> IF patch.stepsPerBeat = ABSENT THEN found.stepsPerBeat ELSE patch.stepsPerBeat,
     steps |-> IF patch.steps = ABSENT THEN found.steps ELSE patch.steps,
     bpm |-> IF patch.bpm = ABSENT THEN found.bpm ELSE patch.bpm,
     currentStep |-> IF patch.currentStep = ABSENT THEN found.currentStep ELSE patch.currentStep,
     patternRevision |-> IF patch.patternRevision = ABSENT THEN found.patternRevision
                         ELSE revWritten(patch.patternRevision),
     pattern |-> IF patch.pattern.has THEN [isObj |-> patch.pattern.isObj, m |-> patch.pattern.m]
                 ELSE found.pattern]

\* faulty variant: a structural change rebuilds the pattern empty
structuralPass_Rebuild(prevSteps, prevPattern, prevTrackIds, found) ==
    LET s1 == ensureStateShape(found)
        nextTrackIds == getTrackIds(s1.tracks)
        stepsChanged == prevSteps # s1.steps
        tracksChanged == Len(prevTrackIds) # Len(nextTrackIds) \/
            \E i \in 1..Len(prevTrackIds) : prevTrackIds[i] # nextTrackIds[i]
        s2 == ensureStateShape(asFound(
                 [s1 EXCEPT !.pattern = buildEmptyPattern(nextTrackIds, s1.steps)]))
    IN [structural |-> stepsChanged \/ tracksChanged, s1 |-> s1, s2 |-> s2]

\* the part of set/update after the patch or mutator has been applied:
\* prev* are the snapshot taken at entry, found is _state as left by the caller
structuralPass(prevSteps, prevPattern, prevTrackIds, found) ==
    LET s1 == ensureStateShape(found)
        nextTrackIds == getTrackIds(s1.tracks)
        stepsChanged == prevSteps # s1.steps
        tracksChanged == Len(prevTrackIds) # Len(nextTrackIds) \/
            \E i \in 1..Len(prevTrackIds) : prevTrackIds[i] # nextTrackIds[i]
        s2 == ensureStateShape(asFound(
                 [s1 EXCEPT !.pattern =
                     resizePatternKeepNotes(prevPattern, s1.tracks, prevSteps, s1.steps)]))
    IN [structural |-> stepsChanged \/ tracksChanged, s1 |-> s1, s2 |-> s2]

\* faulty variant: a pattern key alone does not touch the revision
set_NoTouchOnPatternKey(st, patch) ==
    IF ~patch.isObj THEN Ret(st, <<>>)
    ELSE LET p == structuralPass(st.steps, st.pattern, getTrackIds(st.tracks),
                                 assign(asFound(st), patch))
         IN IF p.structural
            THEN LET t == touchPattern(p.s2)
                 IN Ret(t, <<Evt("structure", t), Evt("state", t)>>)
            ELSE Ret(p.s1, <<Evt("state", p.s1)>>)

set(st, patch) ==
    IF ~patch.isObj THEN Ret(st, <<>>)
    ELSE LET p == structuralPass(st.steps, st.pattern, getTrackIds(st.tracks),
                                 assign(asFound(st), patch))
         IN IF p.structural
            THEN LET t == touchPattern(p.s2)
                 IN Ret(t, <<Evt("structure", t), Evt("state", t)>>)
            ELSE IF patch.pattern.has
                 THEN LET t == touchPattern(p.s1)
                      IN Ret(t, <<Evt("pattern", t), Evt("state", t)>>)
                 ELSE Ret(p.s1, <<Evt("state", p.s1)>>)

\* in-place writes draft.pattern[id][idx] = val of a mutator, in order
RECURSIVE applyEdits(_, _)
applyEdits(pat, edits) ==
    IF edits = <<>> THEN pat
    ELSE LET e == Head(edits)
         IN applyEdits([pat EXCEPT ![e.id][e.idx + 1] = e.val], Tail(edits))

\* faulty variant: every update touches the revision
update_TouchAlways(st, mutator) ==
    IF ~mutator.isFn THEN Ret(st, <<>>)
    ELSE LET prevPattern == applyEdits(st.pattern, mutator.edits)
             p == structuralPass(st.steps, prevPattern, getTrackIds(st.tracks),
                                 assign(asFound([st EXCEPT !.pattern = prevPattern]),
                                        mutator.patch))
         IN IF p.structural
            THEN LET t == touchPattern(p.s2)
                 IN Ret(t, <<Evt("structure", t), Evt("state", t)>>)
            ELSE LET t == touchPattern(p.s1)
                 IN Ret(t, <<Evt("pattern", t), Evt("state", t)>>)

\* mutator: [isFn, edits, patch]: the in-place writes to the pattern object
\* held at entry, followed by the assignments to fields of the draft
update(st, mutator) ==
    IF ~mutator.isFn THEN Ret(st, <<>>)
    ELSE LET prevPattern == applyEdits(st.pattern, mutator.edits)
             p == structuralPass(st.steps, prevPattern, getTrackIds(st.tracks),
                                 assign(asFound([st EXCEPT !.pattern = prevPattern]),
                                        mutator.patch))
         IN IF p.structural
            THEN LET t == touchPattern(p.s2)
                 IN Ret(t, <<Evt("structure", t), Evt("state", t)>>)
            ELSE Ret(p.s1, <<Evt("state", p.s1)>>)

\* update(mutator) whose mutator throws after its writes: the exception
\* leaves update at the call mutator(_state); nothing after it runs, so
\* _state keeps the fields as the mutator wrote them.  The writes are a
\* bar count and a list of track objects with clean ids.
updateThrows(st, mutator) ==
    LET p == mutator.patch
    IN Ret([st EXCEPT !.pattern = applyEdits(st.pattern, mutator.edits),
                      !.bars = IF p.bars = ABSENT THEN @ ELSE p.bars,
                      !.tracks = IF p.tracks.has
                                 THEN [k \in 1..Len(p.tracks.v) |-> p.tracks.v[k].id]
                                 ELSE @],
           <<>>)

\* faulty variant: keepPlayhead is ignored, the cursor is always cleared
resetPattern_DropPlayhead(st, keepPlayhead) ==
    LET trackIds == getTrackIds(st.tracks)
        s0 == [st EXCEPT !.pattern = buildEmptyPattern(trackIds, st.steps),
                         !.currentStep = -1]
        t == touchPattern(ensureStateShape(asFound(s0)))
    IN Ret(t, <<Evt("pattern", t)>>)

resetPattern(st, keepPlayhead) ==
    LET trackIds == getTrackIds(st.tracks)
        s0 == [st EXCEPT !.pattern = buildEmptyPattern(trackIds, st.steps),
                         !.currentStep = IF keepPlayhead THEN @ ELSE -1]
        t == touchPattern(ensureStateShape(asFound(s0)))
    IN Ret(t, <<Evt("pattern", t)>>)

\* faulty variant: hits of the previous pattern are merged into the new one
setPattern_Merge(st, nextPattern, resetPlayhead) ==
    LET given == normalizePattern(nextPattern, st.tracks, st.steps)
        s0 == [st EXCEPT !.pattern = [id \in DOMAIN given |->
                                         [i \in 1..st.steps |-> given[id][i] \/ st.pattern[id][i]]],
                         !.currentStep = IF resetPlayhead THEN -1 ELSE @]
        t == touchPattern(ensureStateShape(asFound(s0)))
    IN Ret(t, <<Evt("pattern", t)>>)

setPattern(st, nextPattern, resetPlayhead) ==
    LET s0 == [st EXCEPT !.pattern = normalizePattern(nextPattern, st.tracks, st.steps),
                         !.currentStep = IF resetPlayhead THEN -1 ELSE @]
        t == touchPattern(ensureStateShape(asFound(s0)))
    IN Ret(t, <<Evt("pattern", t)>>)

\* keys that _state.pattern[id] finds on Object.prototype when the pattern
\* object has no such track: pattern.constructor is the function Object
InheritedKeys == {"constructor"}

\* faulty variant: the revision is touched whether or not the value changed
toggleStep_AlwaysTouch(st, trackId, stepIndex, forceValue) ==
    LET id == Trim(trackId)
        idx == stepIndex
    IN IF id \notin DOMAIN st.pattern THEN RetV(st, <<>>, FALSE, inherited)
       ELSE IF ~isFinite(idx) \/ idx < 0 \/ idx >= st.steps THEN RetV(st, <<>>, FALSE, inherited)
       ELSE LET prev == st.pattern[id][idx + 1]
                nextValue == IF forceValue = "true" THEN TRUE
                             ELSE IF forceValue = "false" THEN FALSE
                             ELSE ~prev
                t == touchPattern([st EXCEPT !.pattern[id][idx + 1] = nextValue])
            IN RetV(t, <<Evt("pattern", t)>>, nextValue, inherited)

\* forceValue: "true", "false", or "none" (not a boolean).
\* _state.pattern[id] is the track's array (own), or the inherited object,
\* whose cell idx is undefined until written.
toggleStep(st, trackId, stepIndex, forceValue) ==
    LET id == Trim(trackId)
        idx == stepIndex
        own == id \in DOMAIN st.pattern
    IN IF ~own /\ id \notin InheritedKeys THEN RetV(st, <<>>, FALSE, inherited)
       ELSE IF ~isFinite(idx) \/ idx < 0 \/ idx >= st.steps THEN RetV(st, <<>>, FALSE, inherited)
       ELSE LET defined == own \/ idx \in DOMAIN inherited
                prev == IF own THEN st.pattern[id][idx + 1]
                        ELSE IF defined THEN inherited[idx] ELSE FALSE
                nextValue == IF forceValue = "true" THEN TRUE
                             ELSE IF forceValue = "false" THEN FALSE
                             ELSE ~prev
                s1 == IF own THEN [st EXCEPT !.pattern[id][idx + 1] = nextValue] ELSE st
                inh1 == IF own THEN inherited ELSE (idx :> nextValue) @@ inherited
            IN IF ~defined \/ prev # nextValue
               THEN LET t == touchPattern(s1) IN RetV(t, <<Evt("pattern", t)>>, nextValue, inh1)
               ELSE RetV(s1, <<>>, nextValue, inh1)

\* value: a number, truthy iff non-zero
setStep(st, trackId, stepIndex, value) ==
    toggleStep(st, trackId, stepIndex, IF value # 0 /\ value # NaN THEN "true" ELSE "false")

\* the value handed back; the store is not written
getStep(st, trackId, stepIndex) ==
    LET id == Trim(trackId)
        idx == stepIndex
        own == id \in DOMAIN st.pattern
    IN IF ~own /\ id \notin InheritedKeys THEN FALSE
       ELSE IF ~isFinite(idx) \/ idx < 0 \/ idx >= st.steps THEN FALSE
       ELSE IF own THEN st.pattern[id][idx + 1]
       ELSE idx \in DOMAIN inherited /\ inherited[idx]

\* faulty variant: a cursor write is reported as a pattern change
setCurrentStep_Touch(st, stepIndex) ==
    LET idx == stepIndex
        t == touchPattern([st EXCEPT !.currentStep =
                  IF isFinite(idx) /\ idx >= 0 /\ idx < st.steps THEN idx ELSE -1])
    IN Ret(t, <<Evt("pattern", t), Evt("playhead", t)>>)

setCurrentStep(st, stepIndex) ==
    LET idx == stepIndex
        s1 == [st EXCEPT !.currentStep =
                  IF isFinite(idx) /\ idx >= 0 /\ idx < st.steps THEN idx ELSE -1]
    IN Ret(s1, <<Evt("playhead", s1)>>)

\* faulty variant: the tempo is stored as given
setBpm_NoClamp(st, v) ==
    LET s1 == [st EXCEPT !.bpm = IF isFinite(v) /\ v # 0 THEN v ELSE DEFAULT_BPM]
    IN Ret(s1, <<Evt("tempo", s1)>>)

\* faulty variant: the tempo change is announced under the tag of set()
setBpm_StateTag(st, v) ==
    LET s1 == [st EXCEPT !.bpm =
                  clamp(IF isFinite(v) /\ v # 0 THEN v ELSE DEFAULT_BPM, BPM_MIN, BPM_MAX)]
    IN Ret(s1, <<Evt("state", s1)>>)

setBpm(st, v) ==
    LET s1 == [st EXCEPT !.bpm =
                  clamp(IF isFinite(v) /\ v # 0 THEN v ELSE DEFAULT_BPM, BPM_MIN, BPM_MAX)]
    IN Ret(s1, <<Evt("tempo", s1)>>)

\* faulty variant: preservePattern is ignored
setTracks_NoCarry(st, trks, preservePattern) ==
    LET newTracks == normalizeTracks(trks)
        s1 == ensureStateShape(asFound(
                 [st EXCEPT !.tracks = newTracks,
                            !.pattern = buildEmptyPattern(getTrackIds(newTracks), st.steps)]))
        t == touchPattern(s1)
    IN Ret(t, <<Evt("structure", t)>>)

setTracks(st, trks, preservePattern) ==
    LET prevSteps == st.steps
        prevPattern == IF preservePattern THEN st.pattern ELSE <<>>
        newTracks == normalizeTracks(trks)
        empty == buildEmptyPattern(getTrackIds(newTracks), st.steps)
        carried == [id \in DOMAIN empty |->
                       IF preservePattern /\ id \in DOMAIN prevPattern
                       THEN toBoolArray(rawPattern(prevPattern).m[id], st.steps)
                       ELSE empty[id]]
        s1 == ensureStateShape(asFound([st EXCEPT !.tracks = newTracks, !.pattern = carried]))
        s2 == IF prevSteps # s1.steps
              THEN ensureStateShape(asFound(
                      [s1 EXCEPT !.pattern =
                          resizePatternKeepNotes(prevPattern, s1.tracks, prevSteps, s1.steps)]))
              ELSE s1
        t == touchPattern(s2)
    IN Ret(t, <<Evt("structure", t)>>)

\* faulty variant: the revision is touched only when the step count changed
setResolution_TouchIfResized(st, config) ==
    LET prevSteps == st.steps
        prevPattern == st.pattern
        nextBars == IF isFinite(config.bars) THEN Max2(1, config.bars) ELSE st.bars
        nextBeatsPerBar == IF isFinite(config.beatsPerBar) THEN Max2(1, config.beatsPerBar)
                           ELSE st.beatsPerBar
        nextStepsPerBeat == IF isFinite(config.stepsPerBeat) THEN Max2(1, config.stepsPerBeat)
                            ELSE st.stepsPerBeat
        nsteps == computeSteps(nextBeatsPerBar, nextStepsPerBeat, nextBars)
        s0 == [st EXCEPT !.bars = nextBars, !.beatsPerBar = nextBeatsPerBar,
                         !.stepsPerBeat = nextStepsPerBeat, !.steps = nsteps,
                         !.pattern = resizePatternKeepNotes(prevPattern, st.tracks,
                                                            prevSteps, nsteps),
                         !.currentStep = IF @ >= nsteps THEN -1 ELSE @]
        s1 == ensureStateShape(asFound(s0))
        t == touchPattern(s1)
    IN IF nsteps # prevSteps THEN Ret(t, <<Evt("structure", t)>>) ELSE Ret(s1, <<>>)

\* config: [bars, beatsPerBar, stepsPerBeat], NaN for a key not given
setResolution(st, config) ==
    LET prevSteps == st.steps
        prevPattern == st.pattern
        nextBars == IF isFinite(config.bars) THEN Max2(1, config.bars) ELSE st.bars
        nextBeatsPerBar == IF isFinite(config.beatsPerBar) THEN Max2(1, config.beatsPerBar)
                           ELSE st.beatsPerBar
        nextStepsPerBeat == IF isFinite(config.stepsPerBeat) THEN Max2(1, config.stepsPerBeat)
                            ELSE st.stepsPerBeat
        nsteps == computeSteps(nextBeatsPerBar, nextStepsPerBeat, nextBars)
        s0 == [st EXCEPT !.bars = nextBars, !.beatsPerBar = nextBeatsPerBar,
                         !.stepsPerBeat = nextStepsPerBeat, !.steps = nsteps,
                         !.pattern = resizePatternKeepNotes(prevPattern, st.tracks,
                                                            prevSteps, nsteps),
                         !.currentStep = IF @ >= nsteps THEN -1 ELSE @]
        t == touchPattern(ensureStateShape(asFound(s0)))
    IN Ret(t, <<Evt("structure", t)>>)

\* ------------------------------------------------------------------------
\* Presets
\* ------------------------------------------------------------------------
ROCK_HH == <<1,0,1,0,1,0,1,0,1,0,1,0,1,0,1,0>>
ROCK_SN == <<0,0,0,0,1,0,0,0,0,0,0,0,1,0,0,0>>
ROCK_BD == <<1,0,0,0,0,0,0,0,1,0,0,0,0,0,0,0>>

\* faulty variant: the events of the resetPattern call are not delivered
loadRockBasic_OneEvent(st) ==
    LET r == resetPattern(st, FALSE)
    IN IF r.st.steps # 16 THEN r
       ELSE LET found == asFound(r.st)
                withRock == [found EXCEPT !.pattern.m =
                                [id \in DOMAIN found.pattern.m \cup {"hh", "sn", "bd"} |->
                                    CASE id = "hh" -> RawArr(ROCK_HH)
                                      [] id = "sn" -> RawArr(ROCK_SN)
                                      [] id = "bd" -> RawArr(ROCK_BD)
                                      [] OTHER -> found.pattern.m[id]]]
                t == touchPattern(ensureStateShape(withRock))
            IN Ret(t, <<Evt("pattern", t)>>)

loadRockBasic(st) ==
    LET r == resetPattern(st, FALSE)
    IN IF r.st.steps # 16 THEN r
       ELSE LET found == asFound(r.st)
                withRock == [found EXCEPT !.pattern.m =
                                [id \in DOMAIN found.pattern.m \cup {"hh", "sn", "bd"} |->
                                    CASE id = "hh" -> RawArr(ROCK_HH)
                                      [] id = "sn" -> RawArr(ROCK_SN)
                                      [] id = "bd" -> RawArr(ROCK_BD)
                                      [] OTHER -> found.pattern.m[id]]]
                t == touchPattern(ensureStateShape(withRock))
            IN Ret(t, r.ev \o <<Evt("pattern", t)>>)

\* ------------------------------------------------------------------------
\* Arguments the callers pass (small sets that cover each branch)
\* ------------------------------------------------------------------------
Obj(id) == [isObj |-> TRUE, id |-> id]
NotObj == [isObj |-> FALSE, id |-> ""]

TrackInputs ==
    { RawArr(<<Obj("hh"), Obj("sn"), Obj("bd")>>),
      RawArr(<<Obj("bd"), Obj(" hh "), Obj("hh"), NotObj, Obj("")>>),
      RawArr(<<Obj(" ")>>),
      RawArr(<<>>),
      NoArray }

PatternInputs ==
    { [isObj |-> FALSE, m |-> <<>>],
      [isObj |-> TRUE,
       m |-> ("hh" :> RawArr([i \in 1..(MaxIndexArg + 1) |-> IF i \in {1, MaxIndexArg + 1} THEN 1 ELSE 0])
              @@ "bd" :> RawArr(<<0, 2>>) @@ "sn" :> NoArray @@ "zz" :> RawArr(<<1>>))] }

\* setResolution configs: NaN for a key that is not given
Config(b, bb, sb) == [bars |-> b, beatsPerBar |-> bb, stepsPerBeat |-> sb]
ResolutionInputs ==
    { Config(NaN, NaN, NaN), Config(2, NaN, NaN), Config(0, NaN, NaN),
      Config(NaN, 3, -1), Config(NaN, 4, 4), Config(2, 3, -1), Config(NaN, 4, -1) }

TrackIdArgs == {"hh", "zz"}
StepIndexArgs == {-1, 0, MaxIndexArg, NaN}
CursorArgs == {-2, MaxIndexArg, 40, NaN}
ForceArgs == {"true", "false", "none"}
BpmArgs == {NaN, 0, 300}

NoTracks == [has |-> FALSE, isArray |-> FALSE, v |-> <<>>]
NoPattern == [has |-> FALSE, isObj |-> FALSE, m |-> <<>>]
HasTracks(t) == [has |-> TRUE, isArray |-> t.isArray, v |-> t.v]
HasPattern(q) == [has |-> TRUE, isObj |-> q.isObj, m |-> q.m]

EmptyPatch ==
    [isObj |-> TRUE, tracks |-> NoTracks, bars |-> ABSENT, beatsPerBar |-> ABSENT,
     stepsPerBeat |-> ABSENT, steps |-> ABSENT, bpm |-> ABSENT, currentStep |-> ABSENT,
     patternRevision |-> ABSENT, pattern |-> NoPattern]

\* the resolution keys of a patch: absent, not a number, or a number
ResolutionPatches ==
    { [EmptyPatch EXCEPT !.bars = c.bars, !.beatsPerBar = c.beatsPerBar,
                         !.stepsPerBeat = c.stepsPerBeat] :
        c \in { Config(ABSENT, ABSENT, ABSENT), Config(2, ABSENT, ABSENT),
                Config(NaN, ABSENT, ABSENT), Config(ABSENT, 3, -1),
                Config(ABSENT, NaN, NaN), Config(0, 4, 4) } }

\* patches of set(): one key, the resolution keys, and the combinations of
\* a pattern or cursor key with a structural key
PatchInputs(cur) ==
    { [EmptyPatch EXCEPT !.isObj = FALSE] }
    \cup ResolutionPatches
    \cup { [EmptyPatch EXCEPT !.steps = 32] }
    \cup { [EmptyPatch EXCEPT !.bpm = v] : v \in BpmArgs }
    \cup { [EmptyPatch EXCEPT !.currentStep = c] : c \in CursorArgs }
    \cup { [EmptyPatch EXCEPT !.patternRevision = -1] }
    \cup { [EmptyPatch EXCEPT !.tracks = HasTracks(t)] : t \in TrackInputs }
    \cup { [EmptyPatch EXCEPT !.pattern = HasPattern(q)] :
             q \in PatternInputs \cup {rawPattern(cur)} }
    \cup { [EmptyPatch EXCEPT !.pattern = HasPattern(q), !.bars = b] :
             q \in PatternInputs, b \in {NaN, 2} }
    \cup { [EmptyPatch EXCEPT !.pattern = HasPattern(q), !.tracks = HasTracks(t)] :
             q \in PatternInputs,
             t \in { RawArr(<<Obj("hh"), Obj("sn"), Obj("bd")>>),
                     RawArr(<<Obj("bd"), Obj(" hh "), Obj("hh"), NotObj, Obj("")>>) } }
    \cup { [EmptyPatch EXCEPT !.currentStep = MaxIndexArg, !.beatsPerBar = 3, !.stepsPerBeat = -1] }

\* in-place writes of a mutator:  draft.pattern[id][idx] = val
EditInputs ==
    { <<>>, <<[id |-> "hh", idx |-> 0, val |-> TRUE]>>,
      <<[id |-> "hh", idx |-> MaxIndexArg, val |-> TRUE],
        [id |-> "hh", idx |-> 0, val |-> FALSE]>> }

\* the edits write cells that exist
EditsValid(st, edits) ==
    \A k \in 1..Len(edits) :
        edits[k].id \in DOMAIN st.pattern /\ edits[k].idx < st.steps

MutatorPatches ==
    ResolutionPatches
    \cup { [EmptyPatch EXCEPT !.tracks = HasTracks(t)] : t \in TrackInputs }
    \cup { [EmptyPatch EXCEPT !.pattern = HasPattern(q)] : q \in PatternInputs }
    \cup { [EmptyPatch EXCEPT !.pattern = HasPattern(q), !.bars = 2] : q \in PatternInputs }
    \cup { [EmptyPatch EXCEPT !.patternRevision = -1] }
    \cup { [EmptyPatch EXCEPT !.currentStep = MaxIndexArg, !.bpm = 300] }
    \cup { [EmptyPatch EXCEPT !.steps = 32] }

\* ------------------------------------------------------------------------
\* The scripts as loaded, before app.js init(): the module-level variables
\* of notation.js and app.js at their initial values
\* ------------------------------------------------------------------------
\* let lastPatternRev = -1, as a value no revision equals
NoRev == U32(-1, -1)
\* s.patternRevision of a state that has no such key
AbsentRev == U32(ABSENT, ABSENT)
\* let lastPatternSig = ''
NoSig == [hh |-> <<>>, sn |-> <<>>, bd |-> <<>>, steps |-> ABSENT]
\* let lastHash = null
NoHash == <<>>
NoScore == <<>>
NoArgs == <<"null">>
EmptyWin == [ticks |-> 0, toggles |-> 0, other |-> FALSE]

\* let t = null
NoTimer == 0

\* no call of buildVoice in progress
NoScan ==
    [pc |-> "idle", inst |-> "hh", stepArr |-> <<>>, pos |-> 0, head |-> -1,
     isHit |-> FALSE, segEnd |-> 0, remaining |-> 0, before |-> 0, cursor |-> 0,
     pieces |-> 0, zero |-> 0, notes |-> <<>>]

\* the page as loaded: the tempo field shows the default tempo and has no
\* edit to commit, no togglePlay in flight, the transport stopped, startedOnce = false
PageIdle ==
    [bpmField |-> DEFAULT_BPM, edited |-> FALSE, invoked |-> 0, awaiting |-> 0,
     transport |-> "stopped", transportStarts |-> 0, startedOnce |-> FALSE]

\* nothing called yet on the wrappers made by rafThrottle and debounce
SchedIdle ==
    /\ scan = NoScan
    /\ page = PageIdle
    /\ calls = <<>>
    /\ fnRuns = <<>>
    /\ timerId = NoTimer
    /\ timers = {}
    /\ burst = <<>>
    /\ engineCalls = <<>>

AppLoaded ==
    /\ SchedIdle
    /\ isPlaying = FALSE
    /\ lastHash = NoHash
    /\ score = NoScore
    /\ lastPatternRev = NoRev
    /\ lastPatternSig = NoSig
    /\ exposesRevision = TRUE
    /\ queued = FALSE
    /\ lastArgs = NoArgs
    /\ rafCallbacks = 0
    /\ win = EmptyWin

\* ------------------------------------------------------------------------
\* The state machine
\* ------------------------------------------------------------------------
Init ==
    /\ tracks = InitialState.tracks
    /\ bars = InitialState.bars
    /\ beatsPerBar = InitialState.beatsPerBar
    /\ stepsPerBeat = InitialState.stepsPerBeat
    /\ steps = InitialState.steps
    /\ bpm = InitialState.bpm
    /\ currentStep = InitialState.currentStep
    /\ patternRevision = InitialState.patternRevision
    /\ pattern = InitialState.pattern
    /\ inherited = <<>>
    /\ voiceSteps = <<>>
    /\ voiceNotes = <<>>
    /\ AppLoaded

RevInBound(rev) == (rev.hi = 0 /\ rev.lo <= MaxRev) \/ rev = U32Max

\* the call returns and leaves _state as computed; r.ev, the emit() calls it
\* made, went to the subscribers (none is registered by the store itself)
Stored(r) ==
    /\ tracks' = r.st.tracks
    /\ bars' = r.st.bars
    /\ beatsPerBar' = r.st.beatsPerBar
    /\ stepsPerBeat' = r.st.stepsPerBeat
    /\ steps' = r.st.steps
    /\ bpm' = r.st.bpm
    /\ currentStep' = r.st.currentStep
    /\ patternRevision' = r.st.patternRevision
    /\ pattern' = r.st.pattern
    /\ inherited' = r.inherited

Return(r) ==
    /\ RevInBound(r.st.patternRevision)
    /\ Stored(r)
    /\ UNCHANGED notationVars
    /\ UNCHANGED appVars
    /\ UNCHANGED schedVars
    /\ UNCHANGED stepVars

Set(patch) == Return(set(State, patch))
Update(mutator) == EditsValid(State, mutator.edits) /\ Return(update(State, mutator))
ResetPattern(keepPlayhead) == Return(resetPattern(State, keepPlayhead))
SetPattern(nextPattern, resetPlayhead) == Return(setPattern(State, nextPattern, resetPlayhead))
ToggleStep(trackId, stepIndex, forceValue) ==
    Return(toggleStep(State, trackId, stepIndex, forceValue))
SetStep(trackId, stepIndex, value) == Return(setStep(State, trackId, stepIndex, value))
SetCurrentStep(stepIndex) == Return(setCurrentStep(State, stepIndex))
SetBpm(v) == Return(setBpm(State, v))
SetTracks(trks, preservePattern) == Return(setTracks(State, trks, preservePattern))
SetResolution(config) == Return(setResolution(State, config))
LoadRockBasic == Return(loadRockBasic(State))

Next ==
    \/ \E patch \in PatchInputs(pattern) : Set(patch)
    \/ \E e \in EditInputs, q \in MutatorPatches :
          Update([isFn |-> TRUE, edits |-> e, patch |-> q])
    \/ Update([isFn |-> FALSE, edits |-> <<>>, patch |-> EmptyPatch])
    \/ \E k \in BOOLEAN : ResetPattern(k)
    \/ \E q \in PatternInputs \cup {rawPattern(pattern)}, r \in BOOLEAN : SetPattern(q, r)
    \/ \E id \in TrackIdArgs, i \in StepIndexArgs, f \in ForceArgs : ToggleStep(id, i, f)
    \/ \E id \in {" hh "}, i \in StepIndexArgs, v \in {0, 1} : SetStep(id, i, v)
    \/ \E i \in CursorArgs : SetCurrentStep(i)
    \/ \E v \in BpmArgs : SetBpm(v)
    \/ \E t \in TrackInputs, p \in BOOLEAN : SetTracks(t, p)
    \/ \E c \in ResolutionInputs : SetResolution(c)
    \/ LoadRockBasic

Spec == Init /\ [][Next]_vars

\* ------------------------------------------------------------------------
\* Step edits by any key: the callers of toggleStep / setStep also pass ids
\* that are no track but that the pattern object inherits
\* ------------------------------------------------------------------------
KeyArgs == TrackIdArgs \cup InheritedKeys \cup {" hh "}

NextKeys ==
    \/ \E id \in KeyArgs, i \in StepIndexArgs, f \in ForceArgs : ToggleStep(id, i, f)
    \/ \E id \in KeyArgs, i \in StepIndexArgs, v \in {0, 1} : SetStep(id, i, v)
    \/ \E k \in BOOLEAN : ResetPattern(k)
    \/ \E t \in TrackInputs, p \in BOOLEAN : SetTracks(t, p)
    \/ \E c \in ResolutionInputs : SetResolution(c)
    \/ Set([EmptyPatch EXCEPT !.patternRevision = -1])

SpecKeys == Init /\ [][NextKeys]_vars

\* ------------------------------------------------------------------------
\* Calls that end in an exception: a mutator that throws after its writes
\* ------------------------------------------------------------------------
ThrowingMutators ==
    { [isFn |-> TRUE, edits |-> e, patch |-> q] :
        e \in { <<>>, <<[id |-> "hh", idx |-> 0, val |-> TRUE]>> },
        q \in { [EmptyPatch EXCEPT !.bars = 2],
                [EmptyPatch EXCEPT !.tracks = HasTracks(RawArr(<<Obj("bd"), Obj("hh")>>))] } }

UpdateThrows(mutator) ==
    EditsValid(State, mutator.edits) /\ Return(updateThrows(State, mutator))

NextThrow ==
    \/ Next
    \/ \E m \in ThrowingMutators : UpdateThrows(m)

SpecThrow == Init /\ [][NextThrow]_vars

\* ------------------------------------------------------------------------
\* notation.js: transcription of one track's steps into notes (buildVoice)
\* ------------------------------------------------------------------------
STEPS_PER_BAR == 16
STEPS_PER_BEAT == 4
GREEDY == <<16, 8, 4, 2, 1>>
\* DISPLAY
showTies == FALSE
hideTiedContinuations == TRUE

\* faulty variant: the map has no entry for two steps
STEP_TO_VF_NoEighth(partSteps) ==
    CASE partSteps = 16 -> "w"
      [] partSteps = 8 -> "h"
      [] partSteps = 4 -> "q"
      [] OTHER -> "16"

\* STEP_TO_VF.get(partSteps) || '16'
STEP_TO_VF(partSteps) ==
    CASE partSteps = 16 -> "w"
      [] partSteps = 8 -> "h"
      [] partSteps = 4 -> "q"
      [] partSteps = 2 -> "8"
      [] OTHER -> "16"

\* arr: a raw array [isArray, v]; out[i] = arr[i] ? 1 : 0 for the 16 steps
normalize16(arr) ==
    [i \in 1..STEPS_PER_BAR |->
        IF arr.isArray /\ i <= Len(arr.v) /\ arr.v[i] # 0 THEN 1 ELSE 0]

\* faulty variant: only a hit on a beat start ends a segment
nextHitIndex_OnBeat(stepArr, from) ==
    LET hits == {i \in from..(STEPS_PER_BAR - 1) :
                    stepArr[i + 1] # 0 /\ i % STEPS_PER_BEAT = 0}
    IN IF hits = {} THEN STEPS_PER_BAR
       ELSE CHOOSE i \in hits : \A j \in hits : i <= j

\* first index i >= from with a hit, or STEPS_PER_BAR
nextHitIndex(stepArr, from) ==
    LET hits == {i \in from..(STEPS_PER_BAR - 1) : stepArr[i + 1] # 0}
    IN IF hits = {} THEN STEPS_PER_BAR
       ELSE CHOOSE i \in hits : \A j \in hits : i <= j

\* faulty variant: a chunk may run four steps on from any position
beatEnd_FromCursor(pos) == Min2(STEPS_PER_BAR, pos + STEPS_PER_BEAT)

beatEnd(pos) ==
    LET beatIdx == pos \div STEPS_PER_BEAT
    IN Min2(STEPS_PER_BAR, (beatIdx + 1) * STEPS_PER_BEAT)

\* the greedy loop over GREEDY from its k-th entry on
RECURSIVE greedyFrom(_, _)
greedyFrom(rem, k) ==
    IF k > Len(GREEDY) THEN <<>>
    ELSE IF rem >= GREEDY[k] THEN <<GREEDY[k]>> \o greedyFrom(rem - GREEDY[k], k)
    ELSE greedyFrom(rem, k + 1)

\* faulty variant: every length is split into single steps
decomposeSteps_Ones(len) == [i \in 1..len |-> 1]

\* faulty variant: the parts come smallest first
decomposeSteps_Ascending(len) ==
    LET g == greedyFrom(len, 1)
    IN [k \in 1..Len(g) |-> g[Len(g) + 1 - k]]

decomposeSteps(len) == greedyFrom(len, 1)

\* a StaveNote: its duration string, whether it is a rest, and whether
\* hideNoteVisually was applied; at and len record the cursor and partSteps
\* of the loop iteration that made it
makeNote(inst, vfDur, isRest) ==
    [inst |-> inst, duration |-> vfDur, rest |-> isRest, hidden |-> FALSE, at |-> 0, len |-> 0]

RECURSIVE SumFirst(_, _)
SumFirst(parts, k) == IF k = 0 THEN 0 ELSE parts[k] + SumFirst(parts, k - 1)

\* faulty variant: hitPieces starts empty in every beat chunk
RECURSIVE segmentNotes_ChunkHeads(_, _, _, _, _)
segmentNotes_ChunkHeads(inst, isHit, cursor, remaining, nPieces) ==
    IF remaining <= 0 THEN <<>>
    ELSE LET bEnd == beatEnd(cursor)
             chunk == Min2(remaining, bEnd - cursor)
             parts == SelectSeq(decomposeSteps(chunk), LAMBDA p : p <= 4)
             made == [k \in 1..Len(parts) |->
                        LET isContinuation == isHit /\ (k - 1) > 0
                        IN [makeNote(inst, STEP_TO_VF(parts[k]), ~isHit) EXCEPT
                               !.hidden = hideTiedContinuations /\ isContinuation,
                               !.at = cursor + SumFirst(parts, k - 1),
                               !.len = parts[k]]]
         IN made \o segmentNotes_ChunkHeads(inst, isHit, cursor + SumFirst(parts, Len(parts)),
                                  remaining - SumFirst(parts, Len(parts)), 0)

\* the inner while loop of one segment: chunks cut at the beat ends, each
\* decomposed into parts; nPieces is hitPieces.length
RECURSIVE segmentNotes(_, _, _, _, _)
segmentNotes(inst, isHit, cursor, remaining, nPieces) ==
    IF remaining <= 0 THEN <<>>
    ELSE LET bEnd == beatEnd(cursor)
             chunk == Min2(remaining, bEnd - cursor)
             parts == SelectSeq(decomposeSteps(chunk), LAMBDA p : p <= 4)
             made == [k \in 1..Len(parts) |->
                        LET isContinuation == isHit /\ (nPieces + k - 1) > 0
                        IN [makeNote(inst, STEP_TO_VF(parts[k]), ~isHit) EXCEPT
                               !.hidden = hideTiedContinuations /\ isContinuation,
                               !.at = cursor + SumFirst(parts, k - 1),
                               !.len = parts[k]]]
         IN made \o segmentNotes(inst, isHit, cursor + SumFirst(parts, Len(parts)),
                                  remaining - SumFirst(parts, Len(parts)),
                                  IF isHit THEN nPieces + Len(parts) ELSE nPieces)

\* the outer while loop from position pos on
RECURSIVE voiceFrom(_, _, _)
voiceFrom(inst, stepArr, pos) ==
    IF pos >= STEPS_PER_BAR THEN <<>>
    ELSE LET isHit == stepArr[pos + 1] # 0
             segEnd == IF isHit THEN nextHitIndex(stepArr, pos + 1)
                       ELSE nextHitIndex(stepArr, pos)
             segLen == Max2(0, segEnd - pos)
         IN IF segLen = 0 THEN voiceFrom(inst, stepArr, pos + 1)
            ELSE segmentNotes(inst, isHit, pos, segLen, 0) \o voiceFrom(inst, stepArr, segEnd)

\* stepArr: 16 numbers (normalize16); the notes added to the voice, and ties
buildVoice(inst, stepArr) ==
    [notes |-> voiceFrom(inst, stepArr, 0), ties |-> <<>>]

\* step arrays handed to the transcription: every bar made of these beats,
\* and values that are no 16-step array
BeatShapes ==
    { <<0, 0, 0, 0>>, <<1, 1, 1, 1>>, <<1, 0, 0, 0>>, <<0, 0, 1, 0>>, <<0, 1, 1, 0>>,
      <<0, 1, 0, 0>>, <<0, 0, 0, 1>> }
VoiceInputs ==
    { RawArr(a \o b \o c \o d) : a \in BeatShapes, b \in BeatShapes,
                                  c \in BeatShapes, d \in BeatShapes }
    \cup { NoArray, RawArr(<<1, 0, 1>>), RawArr([i \in 1..20 |-> 1]) }
Insts == {"hh", "sn", "bd"}

InitNotation ==
    /\ tracks = InitialState.tracks
    /\ bars = InitialState.bars
    /\ beatsPerBar = InitialState.beatsPerBar
    /\ stepsPerBeat = InitialState.stepsPerBeat
    /\ steps = InitialState.steps
    /\ bpm = InitialState.bpm
    /\ currentStep = InitialState.currentStep
    /\ patternRevision = InitialState.patternRevision
    /\ pattern = InitialState.pattern
    /\ inherited = <<>>
    /\ voiceSteps \in VoiceInputs
    /\ voiceNotes = <<>>
    /\ AppLoaded

\* draw: buildVoice(inst, pattern[inst]) on the normalised steps
BuildVoice(inst) ==
    /\ voiceNotes' = buildVoice(inst, normalize16(voiceSteps)).notes
    /\ UNCHANGED <<tracks, bars, beatsPerBar, stepsPerBeat, steps, bpm, currentStep,
                   patternRevision, pattern, inherited, voiceSteps>>
    /\ UNCHANGED appVars
    /\ UNCHANGED schedVars
    /\ UNCHANGED stepVars

NextNotation == \E inst \in Insts : BuildVoice(inst)

SpecNotation == InitNotation /\ [][NextNotation]_vars

\* ------------------------------------------------------------------------
\* notation.js: draw, behind the hash of the three voices
\* ------------------------------------------------------------------------
\* p[id] of the stored pattern as the array normalize16 reads
StoredArr(pat, id) ==
    IF id \in DOMAIN pat
    THEN RawArr([i \in 1..Len(pat[id]) |-> IF pat[id][i] THEN 1 ELSE 0])
    ELSE NoArray

\* faulty variant: the snare and the kick are read from each other's array
getPatternFromState_Swapped(s) ==
    [hh |-> normalize16(StoredArr(s.pattern, "hh")),
     sn |-> normalize16(StoredArr(s.pattern, "bd")),
     bd |-> normalize16(StoredArr(s.pattern, "sn"))]

getPatternFromState(s) ==
    [hh |-> normalize16(StoredArr(s.pattern, "hh")),
     sn |-> normalize16(StoredArr(s.pattern, "sn")),
     bd |-> normalize16(StoredArr(s.pattern, "bd"))]

\* arr.join(''): the digits of a 0/1 array, one character each
join(arr) == [i \in 1..Len(arr) |-> IF arr[i] = 1 THEN "1" ELSE "0"]

\* the string hh/sn/bd as its sequence of characters
hashPattern(p) == join(p.hh) \o <<"/">> \o join(p.sn) \o <<"/">> \o join(p.bd)

\* faulty variant: the notes array of each voice outlives the call
draw_KeepNotes(s, lh, sc) ==
    LET p == getPatternFromState(s)
        h == hashPattern(p)
        old(inst) == IF sc = NoScore THEN <<>> ELSE sc[inst]
    IN IF h = lh THEN [lastHash |-> lh, score |-> sc, transcribed |-> FALSE]
       ELSE [lastHash |-> h,
             score |-> [hh |-> old("hh") \o buildVoice("hh", p.hh).notes,
                        sn |-> old("sn") \o buildVoice("sn", p.sn).notes,
                        bd |-> old("bd") \o buildVoice("bd", p.bd).notes],
             transcribed |-> TRUE]

\* draw(state) with lastHash = lh and the drawing sc on screen: the new
\* lastHash, the notes drawn, and whether the voices were built
draw(s, lh, sc) ==
    LET p == getPatternFromState(s)
        h == hashPattern(p)
    IN IF h = lh THEN [lastHash |-> lh, score |-> sc, transcribed |-> FALSE]
       ELSE [lastHash |-> h,
             score |-> [hh |-> buildVoice("hh", p.hh).notes,
                        sn |-> buildVoice("sn", p.sn).notes,
                        bd |-> buildVoice("bd", p.bd).notes],
             transcribed |-> TRUE]

\* ------------------------------------------------------------------------
\* utils.js / app.js: rafThrottle
\* ------------------------------------------------------------------------
\* the function returned by rafThrottle(fn), called with args on the wrapper
\* w = [queued, lastArgs]; requested: it called requestAnimationFrame
\* faulty variant: the arguments of the call that queued the frame are kept
throttled_FirstArgs(w, args) ==
    [queued |-> TRUE, lastArgs |-> IF w.queued THEN w.lastArgs ELSE args,
     requested |-> ~w.queued, sync |-> <<>>]

\* sync: the argument lists fn was applied to before the call returned
throttled(w, args) ==
    [queued |-> TRUE, lastArgs |-> args, requested |-> ~w.queued, sync |-> <<>>]

\* ------------------------------------------------------------------------
\* app.js (v1.4): the gate in front of the notation
\* ------------------------------------------------------------------------
\* stateGet(): the live state; a state collaborator without a revision
\* counter has no patternRevision key
stateGet(st) == IF exposesRevision THEN st ELSE [st EXCEPT !.patternRevision = AbsentRev]

\* pack(arr): the indices below steps that hold a truthy value, in order
pack(arr, n) ==
    SelectSeq([i \in 1..n |-> i - 1],
              LAMBDA i : arr.isArray /\ i + 1 <= Len(arr.v) /\ arr.v[i + 1] # 0)

\* the signature string as the values it is formatted from
patternSignatureFallback(s) ==
    [hh |-> pack(StoredArr(s.pattern, "hh"), s.steps),
     sn |-> pack(StoredArr(s.pattern, "sn"), s.steps),
     bd |-> pack(StoredArr(s.pattern, "bd"), s.steps),
     steps |-> s.steps]

\* the function wrapped as renderNotation, run on s = stateGet() with the
\* gate at (lpr, lps); render: it went on to Notation.render(s)
renderNotation(s, lpr, lps) ==
    IF s.patternRevision # AbsentRev
    THEN IF s.patternRevision = lpr
         THEN [lastPatternRev |-> lpr, lastPatternSig |-> lps, render |-> FALSE]
         ELSE [lastPatternRev |-> s.patternRevision, lastPatternSig |-> lps, render |-> TRUE]
    ELSE LET sig == patternSignatureFallback(s)
         IN IF sig = lps
            THEN [lastPatternRev |-> lpr, lastPatternSig |-> lps, render |-> FALSE]
            ELSE [lastPatternRev |-> lpr, lastPatternSig |-> sig, render |-> TRUE]

\* the gate and the notation as one value
Gate ==
    [queued |-> queued, lastPatternRev |-> lastPatternRev, lastPatternSig |-> lastPatternSig,
     lastHash |-> lastHash, score |-> score, renders |-> 0, transcriptions |-> 0]

\* one callback handed to requestAnimationFrame by the renderNotation
\* wrapper: queued = false; fn(...lastArgs)
rafCallback(s, g) ==
    LET r == renderNotation(s, g.lastPatternRev, g.lastPatternSig)
        d == IF r.render THEN draw(s, g.lastHash, g.score)
             ELSE [lastHash |-> g.lastHash, score |-> g.score, transcribed |-> FALSE]
    IN [queued |-> FALSE, lastPatternRev |-> r.lastPatternRev,
        lastPatternSig |-> r.lastPatternSig, lastHash |-> d.lastHash, score |-> d.score,
        renders |-> g.renders + (IF r.render THEN 1 ELSE 0),
        transcriptions |-> g.transcriptions + (IF d.transcribed THEN 1 ELSE 0)]

\* a display frame: the browser runs the n callbacks that are pending
RECURSIVE animationFrame(_, _, _)
animationFrame(n, s, g) ==
    IF n = 0 THEN g ELSE animationFrame(n - 1, s, rafCallback(s, g))

\* init() of app.js without presets, on the scripts as loaded:
\* Notation.init draws the state, then the gate is reset and a first
\* renderNotation() is requested
InitApp ==
    /\ tracks = InitialState.tracks
    /\ bars = InitialState.bars
    /\ beatsPerBar = InitialState.beatsPerBar
    /\ stepsPerBeat = InitialState.stepsPerBeat
    /\ steps = InitialState.steps
    /\ bpm = InitialState.bpm
    /\ currentStep = InitialState.currentStep
    /\ patternRevision = InitialState.patternRevision
    /\ pattern = InitialState.pattern
    /\ inherited = <<>>
    /\ voiceSteps = <<>>
    /\ voiceNotes = <<>>
    /\ SchedIdle
    /\ isPlaying = FALSE
    /\ exposesRevision \in BOOLEAN
    /\ lastHash = draw(InitialState, NoHash, NoScore).lastHash
    /\ score = draw(InitialState, NoHash, NoScore).score
    /\ lastPatternRev = NoRev
    /\ lastPatternSig = NoSig
    /\ queued = throttled([queued |-> FALSE, lastArgs |-> NoArgs], <<>>).queued
    /\ lastArgs = throttled([queued |-> FALSE, lastArgs |-> NoArgs], <<>>).lastArgs
    /\ rafCallbacks = 1
    /\ win = EmptyWin

AppRevInBound(rev) == rev.hi = 0 /\ rev.lo <= MaxAppRev

\* a call of the renderNotation wrapper, k times in a row
RECURSIVE Requested(_, _)
Requested(k, w) ==
    IF k = 0 THEN [queued |-> w.queued, lastArgs |-> w.lastArgs, callbacks |-> 0]
    ELSE LET t1 == throttled(w, <<>>)
             rest == Requested(k - 1, t1)
         IN [rest EXCEPT !.callbacks = @ + (IF t1.requested THEN 1 ELSE 0)]

Request(k) ==
    LET q == Requested(k, [queued |-> queued, lastArgs |-> lastArgs])
    IN /\ queued' = q.queued
       /\ lastArgs' = q.lastArgs
       /\ rafCallbacks' = rafCallbacks + q.callbacks

\* a store call made by the page, logged in the window
StoreCall(r, w) ==
    /\ AppRevInBound(r.st.patternRevision)
    /\ Stored(r)
    /\ win' = w
    /\ UNCHANGED notationVars
    /\ UNCHANGED <<lastHash, score, exposesRevision>>
    /\ UNCHANGED schedVars
    /\ UNCHANGED stepVars

\* grid.js onRootClick: toggleStep, then onStepToggle and onChange, each
\* calling renderNotation() (and renderUI())
GridClick(trackId, stepIndex) ==
    LET r == toggleStep(State, trackId, stepIndex, "none")
    IN /\ win.toggles < MaxWindow
       /\ StoreCall(r, IF r.st.pattern # pattern THEN [win EXCEPT !.toggles = @ + 1]
                       ELSE win)
       /\ Request(2)
       /\ UNCHANGED <<lastPatternRev, lastPatternSig>>

\* a tick of the audio engine: setStateStep writes the cursor, then the
\* callback bound by app.js does stateSet({ currentStep }) and renderUI()
AudioStep(stepIndex) ==
    LET r1 == setCurrentStep(State, stepIndex)
        r2 == set(r1.st, [EmptyPatch EXCEPT !.currentStep = stepIndex])
    IN /\ win.ticks < MaxWindow
       /\ StoreCall(r2, [win EXCEPT !.ticks = @ + 1])
       /\ UNCHANGED <<lastPatternRev, lastPatternSig, queued, lastArgs, rafCallbacks>>

\* setCurrentStep called on the store
CursorCall(stepIndex) ==
    /\ win.ticks < MaxWindow
    /\ StoreCall(setCurrentStep(State, stepIndex), [win EXCEPT !.ticks = @ + 1])
    /\ UNCHANGED <<lastPatternRev, lastPatternSig, queued, lastArgs, rafCallbacks>>

\* the other store calls a page makes: structure and hand edits
OtherCall(r) ==
    /\ StoreCall(r, [win EXCEPT !.other = TRUE])
    /\ UNCHANGED <<lastPatternRev, lastPatternSig, queued, lastArgs, rafCallbacks>>

\* clearPattern of app.js
ClearPattern ==
    /\ StoreCall(resetPattern(State, FALSE), [win EXCEPT !.other = TRUE])
    /\ lastPatternRev' = NoRev
    /\ lastPatternSig' = NoSig
    /\ Request(1)

\* renderNotation() on its own
RenderNotation ==
    /\ Request(1)
    /\ UNCHANGED <<tracks, bars, beatsPerBar, stepsPerBeat, steps, bpm, currentStep,
                   patternRevision, pattern, inherited>>
    /\ UNCHANGED notationVars
    /\ UNCHANGED <<lastHash, score, exposesRevision, lastPatternRev, lastPatternSig, win>>
    /\ UNCHANGED schedVars
    /\ UNCHANGED stepVars

\* one buildVoice call of a drawing is kept for comparison with later ones:
\* the step array it was handed and the notes it returned
Kept(inst, stepArr, notes) ==
    /\ voiceSteps' = RawArr(stepArr)
    /\ voiceNotes' = notes

\* the next display frame, but for the variables of notationVars
Frame ==
    LET g == animationFrame(rafCallbacks, stateGet(State), Gate)
    IN /\ queued' = g.queued
       /\ lastPatternRev' = g.lastPatternRev
       /\ lastPatternSig' = g.lastPatternSig
       /\ lastHash' = g.lastHash
       /\ score' = g.score
       /\ rafCallbacks' = 0
       /\ win' = EmptyWin
       /\ UNCHANGED <<tracks, bars, beatsPerBar, stepsPerBeat, steps, bpm, currentStep,
                      patternRevision, pattern, inherited>>
       /\ UNCHANGED <<exposesRevision, lastArgs>>
       /\ UNCHANGED schedVars
       /\ UNCHANGED stepVars

AnimationFrame == Frame /\ UNCHANGED notationVars

\* a frame that draws, with the buildVoice call for inst kept
AnimationFrameKept(inst) ==
    LET g == animationFrame(rafCallbacks, stateGet(State), Gate)
    IN /\ g.transcriptions > 0
       /\ Frame
       /\ Kept(inst, getPatternFromState(State)[inst], g.score[inst])

AppCells == { <<"bd", 0>>, <<"sn", 4>>, <<"hh", 20>> }
AppCursorArgs == {MaxIndexArg, 40}
AppResolutions == { Config(2, NaN, NaN), Config(1, 2, 8), Config(1, 4, 4) }
AppTracks ==
    { RawArr(<<Obj("hh"), Obj("sn"), Obj("bd")>>),
      RawArr(<<Obj("hh"), Obj("sn"), Obj("bd"), Obj("zz")>>) }
AppMutators ==
    { [isFn |-> TRUE, edits |-> <<[id |-> "bd", idx |-> 0, val |-> v]>>, patch |-> EmptyPatch] :
        v \in BOOLEAN }

NextApp ==
    \/ \E c \in AppCells : GridClick(c[1], c[2])
    \/ \E i \in AppCursorArgs : AudioStep(i)
    \/ \E i \in AppCursorArgs : CursorCall(i)
    \/ \E c \in AppResolutions : OtherCall(setResolution(State, c))
    \/ \E t \in AppTracks : OtherCall(setTracks(State, t, TRUE))
    \/ \E m \in AppMutators : OtherCall(update(State, m))
    \/ ClearPattern
    \/ RenderNotation
    \/ AnimationFrame

SpecApp == InitApp /\ [][NextApp]_vars

\* the page, with one earlier buildVoice call kept at hand
NextAppCalls ==
    \/ NextApp
    \/ \E inst \in Insts : AnimationFrameKept(inst)

SpecAppCalls == InitApp /\ [][NextAppCalls]_vars

\* ------------------------------------------------------------------------
\* presets.js: PRESET_MAP and DrumPresets.apply
\* ------------------------------------------------------------------------
PresetNames == {"rock", "funk"}

\* preset.bpm
presetBpm(name) == IF name = "rock" THEN 92 ELSE 98

\* preset.pattern, after ensure16
presetPattern(name) ==
    IF name = "rock"
    THEN [hh |-> <<1,0,1,0, 1,0,1,0, 1,0,1,0, 1,0,1,0>>,
          sn |-> <<0,0,0,0, 1,0,0,0, 0,0,0,0, 1,0,0,0>>,
          bd |-> <<1,0,0,0, 0,0,0,0, 1,0,0,0, 0,0,0,0>>]
    ELSE [hh |-> <<1,1,1,1, 1,1,1,1, 1,1,1,1, 1,1,1,1>>,
          sn |-> <<0,0,0,0, 1,0,0,0, 0,0,0,0, 1,0,0,0>>,
          bd |-> <<1,0,0,1, 0,0,1,0, 1,0,0,0, 0,1,0,0>>]

\* the mutator apply() hands to S.update: the resolution of one 4/4 bar,
\* draft.pattern = clone(preset.pattern), the tempo and the cursor; the
\* tracks are written only when the store has none
presetMutator(name) ==
    [isFn |-> TRUE, edits |-> <<>>,
     patch |-> [EmptyPatch EXCEPT
                  !.bars = 1, !.beatsPerBar = 4, !.stepsPerBeat = 4, !.steps = 16,
                  !.pattern = [has |-> TRUE, isObj |-> TRUE,
                               m |-> [id \in {"hh", "sn", "bd"} |->
                                        RawArr(presetPattern(name)[id])]],
                  !.bpm = presetBpm(name), !.currentStep = -1]]

\* DrumPresets.apply(name, DrumState) for a preset that exists
presetsApply(st, name) == update(st, presetMutator(name))

\* ------------------------------------------------------------------------
\* buildVoice of notation.js, one loop iteration at a time
\* ------------------------------------------------------------------------
\* the bars the loops are run on, and values that are no 16-step array
ScanShapes == { <<0, 0, 0, 0>>, <<1, 1, 1, 1>>, <<1, 0, 0, 0>>, <<0, 1, 1, 0>> }
ScanInputs ==
    { RawArr(a \o b \o c \o d) : a \in ScanShapes, b \in ScanShapes,
                                  c \in ScanShapes, d \in ScanShapes }
    \cup { NoArray, RawArr(<<1, 0, 1>>) }

\* faulty variant: the segment of a hit is measured from the hit itself
outerStep_HitFromPos(sc) ==
    LET isHit == sc.stepArr[sc.pos + 1] # 0
        segEnd == nextHitIndex(sc.stepArr, sc.pos)
        segLen == Max2(0, segEnd - sc.pos)
    IN IF segLen = 0
       THEN [sc EXCEPT !.head = sc.pos, !.pos = sc.pos + 1, !.zero = @ + 1]
       ELSE [sc EXCEPT !.pc = "inner", !.head = sc.pos, !.isHit = isHit,
                       !.segEnd = segEnd, !.remaining = segLen, !.before = segLen + 1,
                       !.cursor = sc.pos, !.pieces = 0]

\* one pass of the outer while loop down to the inner loop: isHit, segEnd,
\* segLen, and the branch of a segment of length zero
\* head: pos at the start of the pass; zero: times the branch was taken
outerStep(sc) ==
    LET isHit == sc.stepArr[sc.pos + 1] # 0
        segEnd == IF isHit THEN nextHitIndex(sc.stepArr, sc.pos + 1)
                  ELSE nextHitIndex(sc.stepArr, sc.pos)
        segLen == Max2(0, segEnd - sc.pos)
    IN IF segLen = 0
       THEN [sc EXCEPT !.head = sc.pos, !.pos = sc.pos + 1, !.zero = @ + 1]
       ELSE [sc EXCEPT !.pc = "inner", !.head = sc.pos, !.isHit = isHit,
                       !.segEnd = segEnd, !.remaining = segLen, !.before = segLen + 1,
                       !.cursor = sc.pos, !.pieces = 0]

\* one pass of the inner while loop: a chunk up to the beat end, its parts,
\* and a note for each part
\* before: remaining at the start of the pass
innerStep(sc) ==
    LET bEnd == beatEnd(sc.cursor)
        chunk == Min2(sc.remaining, bEnd - sc.cursor)
        parts == SelectSeq(decomposeSteps(chunk), LAMBDA p : p <= 4)
        total == SumFirst(parts, Len(parts))
        made == [k \in 1..Len(parts) |->
                   LET isContinuation == sc.isHit /\ (sc.pieces + k - 1) > 0
                   IN [makeNote(sc.inst, STEP_TO_VF(parts[k]), ~sc.isHit) EXCEPT
                          !.hidden = hideTiedContinuations /\ isContinuation,
                          !.at = sc.cursor + SumFirst(parts, k - 1),
                          !.len = parts[k]]]
    IN [sc EXCEPT !.before = sc.remaining, !.remaining = sc.remaining - total,
                  !.cursor = sc.cursor + total,
                  !.pieces = IF sc.isHit THEN sc.pieces + Len(parts) ELSE sc.pieces,
                  !.notes = sc.notes \o made]

ScanFrame ==
    /\ UNCHANGED <<tracks, bars, beatsPerBar, stepsPerBeat, steps, bpm, currentStep,
                   patternRevision, pattern, inherited, page>>
    /\ UNCHANGED appVars
    /\ UNCHANGED schedVars

\* buildVoice(inst, steps) is called: notes = [], pos = 0
ScanStart(inst, arr) ==
    /\ scan.pc = "idle"
    /\ scan' = [NoScan EXCEPT !.pc = "outer", !.inst = inst, !.stepArr = normalize16(arr)]
    /\ voiceSteps' = arr
    /\ voiceNotes' = <<>>
    /\ ScanFrame

\* while (pos < STEPS_PER_BAR), up to the inner loop or to continue
OuterStep ==
    /\ scan.pc = "outer" /\ scan.pos < STEPS_PER_BAR
    /\ scan' = outerStep(scan)
    /\ UNCHANGED notationVars
    /\ ScanFrame

\* while (remaining > 0)
InnerStep ==
    /\ scan.pc = "inner" /\ scan.remaining > 0
    /\ scan' = innerStep(scan)
    /\ UNCHANGED notationVars
    /\ ScanFrame

\* the inner loop is left: pos = segEnd
SegmentEnd ==
    /\ scan.pc = "inner" /\ scan.remaining <= 0
    /\ scan' = [scan EXCEPT !.pc = "outer", !.pos = scan.segEnd]
    /\ UNCHANGED notationVars
    /\ ScanFrame

\* the outer loop is left and the notes are returned
ScanReturn ==
    /\ scan.pc = "outer" /\ scan.pos >= STEPS_PER_BAR
    /\ scan' = [scan EXCEPT !.pc = "idle"]
    /\ voiceNotes' = scan.notes
    /\ UNCHANGED voiceSteps
    /\ ScanFrame

ScanRuns == OuterStep \/ InnerStep \/ SegmentEnd \/ ScanReturn

NextScan ==
    \/ \E inst \in Insts, arr \in ScanInputs : ScanStart(inst, arr)
    \/ OuterStep
    \/ InnerStep
    \/ SegmentEnd
    \/ ScanReturn

\* a call that has started keeps running: the loops are synchronous code
SpecScan == Init /\ [][NextScan]_vars /\ WF_vars(ScanRuns)

\* ------------------------------------------------------------------------
\* rafThrottle under observation: one wrapper, called with arguments
\* ------------------------------------------------------------------------
RafArgs == { <<>>, <<"a">>, <<"b">> }

\* a run of the wrapped function: the arguments it was applied to and the
\* cursor it read from the live state, as syncGridPlayhead of renderUI does
fnRun(args, s) == [args |-> args, seen |-> s.currentStep]

\* a call of the wrapper; the first call after a frame opens a new window
Throttled(args) ==
    LET r == throttled([queued |-> queued, lastArgs |-> lastArgs], args)
        before == IF rafCallbacks = 0 THEN <<>> ELSE calls
        ran == IF rafCallbacks = 0 THEN <<>> ELSE fnRuns
    IN /\ Len(before) < MaxCalls
       /\ queued' = r.queued
       /\ lastArgs' = r.lastArgs
       /\ rafCallbacks' = rafCallbacks + (IF r.requested THEN 1 ELSE 0)
       /\ calls' = Append(before, args)
       /\ fnRuns' = ran \o [k \in 1..Len(r.sync) |-> fnRun(r.sync[k], State)]
       /\ UNCHANGED <<tracks, bars, beatsPerBar, stepsPerBeat, steps, bpm, currentStep,
                      patternRevision, pattern, inherited>>
       /\ UNCHANGED notationVars
       /\ UNCHANGED <<lastHash, score, lastPatternRev, lastPatternSig, exposesRevision, win>>
       /\ UNCHANGED <<timerId, timers, burst, engineCalls, isPlaying, scan, page>>

\* a display frame with callbacks pending: each does queued = false and
\* applies fn to lastArgs
RafFrame ==
    /\ rafCallbacks > 0
    /\ queued' = FALSE
    /\ fnRuns' = fnRuns \o [k \in 1..rafCallbacks |-> fnRun(lastArgs, State)]
    /\ rafCallbacks' = 0
    /\ win' = EmptyWin
    /\ UNCHANGED <<tracks, bars, beatsPerBar, stepsPerBeat, steps, bpm, currentStep,
                   patternRevision, pattern, inherited>>
    /\ UNCHANGED notationVars
    /\ UNCHANGED <<lastHash, score, lastPatternRev, lastPatternSig, exposesRevision, lastArgs>>
    /\ UNCHANGED <<calls, timerId, timers, burst, engineCalls, isPlaying, scan, page>>

NextRaf ==
    \/ \E a \in RafArgs : Throttled(a)
    \/ \E i \in AppCursorArgs : CursorCall(i)
    \/ RafFrame

SpecRaf == Init /\ [][NextRaf]_vars

\* ------------------------------------------------------------------------
\* debounce under observation: setBpmToAudioDebounced of app.js
\* ------------------------------------------------------------------------
\* DEFAULTS of the audio engine
minBpm == 40
maxBpm == 240

\* clearTimeout: a handle that is null or has fired cancels nothing
clearTimeout(pending, id) == {x \in pending : x.id # id}

\* setTimeout: a new timer under a handle no pending timer has
setTimeout(pending, args) ==
    LET id == CHOOSE n \in 1..(Cardinality(pending) + 1) :
                  \A x \in pending : x.id # n
    IN [t |-> id, timers |-> pending \cup {[id |-> id, args |-> args]}]

\* faulty variant: the pending timer is not cancelled
debounced_NoClear(w, args) == setTimeout(w.timers, args)

\* debounced(...args): clearTimeout(t); t = setTimeout(() => fn(args), wait)
debounced(w, args) == setTimeout(clearTimeout(w.timers, w.t), args)

\* Audio.setBpm of the engine: clamps and stores through DrumState.setBpm
engineSetBpm(st, v) ==
    setBpm(st, clamp(IF isFinite(v) /\ v # 0 THEN v ELSE DEFAULT_BPM, minBpm, maxBpm))

\* what the tempo field holds when the input event fires
BpmInputs == {NaN, 30, 100, 150, 300}

InitDebounce ==
    /\ tracks = InitialState.tracks
    /\ bars = InitialState.bars
    /\ beatsPerBar = InitialState.beatsPerBar
    /\ stepsPerBeat = InitialState.stepsPerBeat
    /\ steps = InitialState.steps
    /\ bpm = InitialState.bpm
    /\ currentStep = InitialState.currentStep
    /\ patternRevision = InitialState.patternRevision
    /\ pattern = InitialState.pattern
    /\ inherited = <<>>
    /\ voiceSteps = <<>>
    /\ voiceNotes = <<>>
    /\ SchedIdle
    /\ isPlaying \in BOOLEAN
    /\ lastHash = NoHash
    /\ score = NoScore
    /\ lastPatternRev = NoRev
    /\ lastPatternSig = NoSig
    /\ exposesRevision = TRUE
    /\ queued = FALSE
    /\ lastArgs = NoArgs
    /\ rafCallbacks = 0
    /\ win = EmptyWin

\* faulty variant: the store is left to the debounced propagation
onBpmInput_StoreOnFire(st, w, playing, raw) ==
    LET value == clamp(raw, 40, 240)
        d == debounced(w, value)
    IN IF playing /\ isFinite(raw)
       THEN [r |-> Ret(st, <<>>), value |-> value, t |-> d.t, timers |-> d.timers,
             scheduled |-> TRUE]
       ELSE [r |-> Ret(st, <<>>), value |-> value, t |-> w.t, timers |-> w.timers,
             scheduled |-> FALSE]

\* onBpmInput of app.js on a finite raw value: stateSet({ bpm: value }), then
\* the debounced call when stateGet().isPlaying
\* r: what State.set returned; scheduled: setBpmToAudioDebounced was called
onBpmInput(st, w, playing, raw) ==
    LET value == clamp(raw, 40, 240)
        d == IF playing THEN debounced(w, value) ELSE w
    IN [r |-> set(st, [EmptyPatch EXCEPT !.bpm = value]), value |-> value,
        t |-> d.t, timers |-> d.timers, scheduled |-> playing]

\* what the page holds once the handler has run with outcome h;
\* syncToolbarFromState leaves the field showing the stored tempo
BpmInputHandled(h) ==
    LET before == IF timers = {} THEN <<>> ELSE burst
    IN /\ Stored(h.r)
       /\ IF h.scheduled
            THEN /\ Len(before) < MaxCalls
                 /\ timerId' = h.t
                 /\ timers' = h.timers
                 /\ burst' = Append(before, h.value)
                 /\ engineCalls' = IF timers = {} THEN <<>> ELSE engineCalls
            ELSE UNCHANGED <<timerId, timers, burst, engineCalls>>
       /\ page' = [page EXCEPT !.bpmField = h.r.st.bpm, !.edited = TRUE]
       /\ UNCHANGED <<calls, fnRuns, isPlaying, scan>>
       /\ UNCHANGED notationVars
       /\ UNCHANGED appVars

\* the input event on the tempo field; the handler returns at a value that
\* is not a finite number
OnBpmInput(raw) ==
    /\ isFinite(raw)
    /\ \E h \in {onBpmInput(State, [t |-> timerId, timers |-> timers],
                           isPlaying, raw)} : BpmInputHandled(h)

\* the delay of a pending timer expires: fn is applied to the arguments of
\* the call that set it
TimerFires ==
    \E x \in timers :
       /\ timers' = timers \ {x}
       /\ engineCalls' = Append(engineCalls, x.args)
       /\ Stored(engineSetBpm(State, x.args))
       /\ UNCHANGED <<calls, fnRuns, timerId, burst, isPlaying, scan, page>>
       /\ UNCHANGED notationVars
       /\ UNCHANGED appVars

NextDebounce ==
    \/ \E raw \in BpmInputs : OnBpmInput(raw)
    \/ TimerFires

SpecDebounce == InitDebounce /\ [][NextDebounce]_vars

\* ------------------------------------------------------------------------
\* The tempo of the page: the field, the presets and the debounced call
\* ------------------------------------------------------------------------
\* the input event on a text that is no finite number: onBpmInput returns
FieldCleared ==
    /\ page.bpmField # NaN
    /\ page' = [page EXCEPT !.bpmField = NaN, !.edited = TRUE]
    /\ UNCHANGED <<tracks, bars, beatsPerBar, stepsPerBeat, steps, bpm, currentStep,
                   patternRevision, pattern, inherited, scan>>
    /\ UNCHANGED notationVars
    /\ UNCHANGED appVars
    /\ UNCHANGED schedVars

\* onBpmChange of app.js on the text of the field: stateSet({ bpm: value }),
\* then Audio.setBpm(value) at once
\* the outcome of call a followed by the outcome e of a call on a.st
Sequel(a, e) == Ret(e.st, a.ev \o e.ev)

\* Audio.setBpm(value) after the call whose outcome is a
audioSetBpmAfter(a, value) == Sequel(a, engineSetBpm(a.st, value))

onBpmChange(st, field) ==
    LET value == clamp(IF isFinite(field) /\ field # 0 THEN field ELSE 90, 40, 240)
    IN [r |-> audioSetBpmAfter(set(st, [EmptyPatch EXCEPT !.bpm = value]), value),
        value |-> value]

\* the change event that commits an edit of the field; the toolbar sync of
\* renderUI is taken with the handler
BpmChangeHandled(h) ==
    /\ Stored(h.r)
    /\ page' = [page EXCEPT !.bpmField = h.value, !.edited = FALSE]
    /\ UNCHANGED scan
    /\ UNCHANGED notationVars
    /\ UNCHANGED appVars
    /\ UNCHANGED schedVars

OnBpmChange ==
    /\ page.edited
    /\ \E h \in {onBpmChange(State, page.bpmField)} : BpmChangeHandled(h)

\* applyPreset of app.js: Presets.apply, Audio.setBpm(stateGet().bpm), the
\* gate reset and renderNotation(); the toolbar sync of renderUI is taken
\* with the handler
audioSetBpmStored(a) == audioSetBpmAfter(a, a.st.bpm)

applyPreset(st, name) ==
    CHOOSE r \in {audioSetBpmStored(a) : a \in {presetsApply(st, name)}} : TRUE

PresetApplied(r) ==
    /\ Stored(r)
    /\ lastPatternRev' = NoRev
    /\ lastPatternSig' = NoSig
    /\ Request(1)
    /\ page' = [page EXCEPT !.bpmField = r.st.bpm]
    /\ UNCHANGED <<lastHash, score, exposesRevision, win, scan>>
    /\ UNCHANGED notationVars
    /\ UNCHANGED schedVars

ApplyPreset(name) == \E r \in {applyPreset(State, name)} : PresetApplied(r)

NextTempo ==
    \/ \E raw \in BpmInputs : OnBpmInput(raw)
    \/ FieldCleared
    \/ OnBpmChange
    \/ \E name \in PresetNames : ApplyPreset(name)
    \/ TimerFires

SpecTempo == InitDebounce /\ [][NextTempo]_vars

\* ------------------------------------------------------------------------
\* The play button: togglePlay of app.js and start/stop of the engine
\* ------------------------------------------------------------------------
\* clicks on the play button a run takes
MaxToggles == 3
\* the steps the loop of the engine reports
PlaySteps == 0 .. (DEFAULT_STEPS - 1)

\* DrumState.set applied to each patch of a list in turn
RECURSIVE setAll(_, _)
setAll(r, patches) ==
    IF patches = <<>> THEN r
    ELSE setAll(Sequel(r, set(r.st, Head(patches))), Tail(patches))

\* the store writes of Audio.stop() and of the stop branch of togglePlay:
\* onStepCb(-1) reaches stateSet({ currentStep: -1 }) and the two patches
\* { isPlaying: false, currentStep: -1 } write the same cursor
stopWrites(st) ==
    setAll(Ret(st, <<>>), << [EmptyPatch EXCEPT !.currentStep = -1],
                             [EmptyPatch EXCEPT !.currentStep = -1],
                             [EmptyPatch EXCEPT !.currentStep = -1] >>)

\* setStatePatch({ isPlaying: true }) of start() and stateSet({ isPlaying:
\* true }) of togglePlay: no key of the store's shape is written
startWrites(st) == setAll(Ret(st, <<>>), <<EmptyPatch, EmptyPatch>>)

\* setStateStep of the loop: DrumState.setCurrentStep(step), then onStepCb
\* reaches stateSet({ currentStep: step })
stepWrites(st, step) ==
    setAll(setCurrentStep(st, step), << [EmptyPatch EXCEPT !.currentStep = step] >>)

PlayFrame ==
    /\ UNCHANGED <<calls, fnRuns, timerId, timers, burst, engineCalls, scan>>
    /\ UNCHANGED notationVars
    /\ UNCHANGED appVars

\* togglePlay up to its first await (start branch) or to its end (stop
\* branch); s.isPlaying is read when the handler is entered
TogglePlay ==
    /\ page.invoked < MaxToggles
    /\ IF ~isPlaying
         THEN /\ \E r \in {engineSetBpm(State, bpm)} : Stored(r)
              /\ page' = [page EXCEPT !.invoked = @ + 1, !.awaiting = @ + 1]
              /\ UNCHANGED isPlaying
         ELSE /\ \E r \in {stopWrites(State)} : Stored(r)
              /\ page' = [page EXCEPT !.invoked = @ + 1, !.transport = "stopped"]
              /\ isPlaying' = FALSE
    /\ PlayFrame

\* the awaits of one Audio.start() are over: start() runs to its return and
\* the togglePlay that awaited it runs to its end
StartResumes ==
    /\ page.awaiting > 0
    /\ \E r \in {startWrites(State)} : Stored(r)
    /\ page' = [page EXCEPT !.awaiting = @ - 1,
                            !.transport = "started",
                            !.transportStarts = IF page.transport # "started"
                                                THEN @ + 1 ELSE @,
                            !.startedOnce = TRUE]
    /\ isPlaying' = TRUE
    /\ PlayFrame

\* the loop of the started transport reports a step
PlayTick(step) ==
    /\ page.transport = "started"
    /\ \E r \in {stepWrites(State, step)} : Stored(r)
    /\ UNCHANGED <<isPlaying, page>>
    /\ PlayFrame

InitPlay == InitDebounce /\ isPlaying = FALSE

NextPlay ==
    \/ TogglePlay
    \/ StartResumes
    \/ \E step \in PlaySteps : PlayTick(step)

SpecPlay == InitPlay /\ [][NextPlay]_vars

\* ------------------------------------------------------------------------
\* Vocabulary of the properties
\* ------------------------------------------------------------------------
\* value of cell (id, i), i 0-based, of a stored pattern
Cell(pat, id, i) == pat[id][i + 1]

\* the hit values, the track list and the step count are the same
SameGrid(a, b) == a.pattern = b.pattern /\ a.tracks = b.tracks /\ a.steps = b.steps

EventTypes(ev) == {ev[k].type : k \in 1..Len(ev)}

\* ------------------------------------------------------------------------
\* Properties of the store
\* ------------------------------------------------------------------------

\* C1: after every public store operation, bars, beatsPerBar and
\* stepsPerBeat are integers >= 1 and steps = bars * beatsPerBar * stepsPerBeat.
C1_StepsIsProduct ==
    /\ bars \in Int /\ beatsPerBar \in Int /\ stepsPerBeat \in Int
    /\ bars >= 1 /\ beatsPerBar >= 1 /\ stepsPerBeat >= 1
    /\ steps = bars * beatsPerBar * stepsPerBeat

\* a resolution other than the default in every factor has been installed
C1_Witness ==
    /\ bars = 2 /\ beatsPerBar = 3 /\ stepsPerBeat = 1 /\ steps = 6

\* C2: after every public store operation the track list is non-empty with
\* pairwise distinct ids, the keys of pattern are exactly the current track
\* ids, and every pattern[id] is a boolean array of length steps.
C2_PatternShape ==
    /\ Len(tracks) >= 1
    /\ \A a, b \in 1..Len(tracks) : a # b => tracks[a] # tracks[b]
    /\ DOMAIN pattern = Range(tracks)
    /\ \A id \in DOMAIN pattern :
          /\ DOMAIN pattern[id] = 1..steps
          /\ \A i \in 1..steps : pattern[id][i] \in BOOLEAN

\* the track list was replaced from an input with a duplicate id and the
\* grid was resized, with a hit still stored
C2_Witness ==
    /\ tracks = <<"bd", "hh">>
    /\ steps = 6
    /\ \E id \in DOMAIN pattern : \E i \in 1..steps : pattern[id][i]

\* C3: currentStep is an integer with -1 <= currentStep < steps in every
\* reachable state; a setResolution or set(patch) that shrinks steps to a
\* value <= currentStep leaves currentStep = -1; setCurrentStep(i) stores i
\* when 0 <= i < steps and -1 otherwise.
C3_CursorInRange ==
    /\ currentStep \in Int /\ -1 <= currentStep /\ currentStep < steps
    /\ \A c \in ResolutionInputs :
          LET r == setResolution(State, c)
          IN r.st.steps <= currentStep => r.st.currentStep = -1
    /\ \A patch \in PatchInputs(pattern) :
          LET r == set(State, patch)
          IN (patch.currentStep = ABSENT /\ r.st.steps <= currentStep)
                => r.st.currentStep = -1
    /\ \A i \in CursorArgs :
          setCurrentStep(State, i).st.currentStep =
              (IF i # NaN /\ 0 <= i /\ i < steps THEN i ELSE -1)

\* the cursor stands on a step that a setResolution and a set(patch) remove
C3_Witness ==
    /\ currentStep = MaxIndexArg
    /\ \E c \in ResolutionInputs :
          LET r == setResolution(State, c)
          IN r.st.steps <= currentStep /\ r.st.currentStep = -1
    /\ \E patch \in PatchInputs(pattern) :
          LET r == set(State, patch)
          IN patch.currentStep = ABSENT /\ r.st.steps <= currentStep /\ r.st.currentStep = -1

\* a toggleStep call that passes both guards: known id, index in [0, steps)
ValidCell(st, trackId, i) ==
    Trim(trackId) \in DOMAIN st.pattern /\ i # NaN /\ 0 <= i /\ i < st.steps

\* C4: toggleStep(t, i, forceValue) changes the revision iff the stored
\* value at (t, i) changed, and then by exactly one; toggleStep(t, i, true)
\* on a false cell stores true and bumps once, and the same call again
\* changes neither value nor revision; without forceValue the call always
\* flips the cell and bumps once.
C4_ToggleBumpsIffChanged ==
    \A t \in TrackIdArgs, i \in StepIndexArgs, f \in ForceArgs :
        LET r == toggleStep(State, t, i, f)
            valid == ValidCell(State, t, i)
            before == Cell(pattern, Trim(t), i)
            after == Cell(r.st.pattern, Trim(t), i)
            again == toggleStep(r.st, t, i, "true")
        IN /\ r.st.patternRevision # patternRevision <=> (valid /\ after # before)
           /\ r.st.patternRevision # patternRevision
                 => r.st.patternRevision = U32Inc(patternRevision)
           /\ (valid /\ f = "true" /\ ~before) =>
                 /\ after /\ r.st.patternRevision = U32Inc(patternRevision)
                 /\ again.st = r.st
           /\ (valid /\ f = "none") =>
                 /\ after = ~before /\ r.st.patternRevision = U32Inc(patternRevision)

\* a cell stored true by an earlier call is forced to true again, and a
\* false cell of the same track is there to be forced
C4_Witness ==
    /\ ValidCell(State, "hh", 0) /\ ValidCell(State, "hh", MaxIndexArg)
    /\ Cell(pattern, "hh", 0) /\ ~Cell(pattern, "hh", MaxIndexArg)
    /\ toggleStep(State, "hh", 0, "true").st = State
    /\ Cell(toggleStep(State, "hh", MaxIndexArg, "true").st.pattern, "hh", MaxIndexArg)
    /\ patternRevision = U32(0, 1)

\* the resize rule: a cell in both grids keeps its value, a new cell is false
PrefixKept(old, new, id, oldSteps, newSteps) ==
    /\ DOMAIN new[id] = 1..newSteps
    /\ \A i \in 0..(newSteps - 1) :
          Cell(new, id, i) = (IF i < oldSteps THEN Cell(old, id, i) ELSE FALSE)

\* C5: setResolution resizes every track's array by copying the prefix
\* [0, min(oldSteps, newSteps)) and filling the rest with false.
C5_ResolutionKeepsPrefix ==
    \A c \in ResolutionInputs :
        LET r == setResolution(State, c)
        IN /\ r.st.tracks = tracks
           /\ DOMAIN r.st.pattern = Range(tracks)
           /\ \A id \in Range(tracks) :
                 PrefixKept(pattern, r.st.pattern, id, steps, r.st.steps)

\* the example: [1,0,1,0] at 4 steps becomes [1,0,1,0,0,0] at 6 steps and
\* then [1,0,1] at 3 steps
C5_Witness ==
    /\ steps = 4
    /\ pattern["hh"] = <<TRUE, FALSE, TRUE, FALSE>>
    /\ LET six == setResolution(State, Config(2, 3, -1)).st
           three == setResolution(six, Config(0, NaN, NaN)).st
       IN /\ six.steps = 6
          /\ six.pattern["hh"] = <<TRUE, FALSE, TRUE, FALSE, FALSE, FALSE>>
          /\ three.steps = 3
          /\ three.pattern["hh"] = <<TRUE, FALSE, TRUE>>

Mutators == { [isFn |-> TRUE, edits |-> e, patch |-> q] : e \in EditInputs, q \in MutatorPatches }

\* the mutators whose in-place writes hit existing cells of _state
MutatorsHere == { m \in Mutators : EditsValid(State, m.edits) }

BumpedOnce(r) == r.st.patternRevision = U32Inc(patternRevision)

C7_Original ==
    [][(pattern' = pattern /\ tracks' = tracks /\ steps' = steps)
          => patternRevision' # U32Inc(patternRevision)]_vars

\* C7 amended: the revision does not increment on a toggleStep or setStep
\* that leaves the cell as it was, on setCurrentStep, on setBpm, on a
\* set(patch) without pattern key that leaves tracks and steps as they were,
\* or on an update that leaves tracks and steps as they were; setPattern,
\* resetPattern, set with a pattern key, setTracks, setResolution and
\* loadRockBasic increment it on every call, also when the grid stays as it was.
C7_NoBumpOnRedundantWrite ==
    /\ \A t \in TrackIdArgs \cup {" hh "}, i \in StepIndexArgs, f \in ForceArgs :
          LET r == toggleStep(State, t, i, f)
          IN SameGrid(r.st, State) => r.st.patternRevision = patternRevision
    /\ \A t \in TrackIdArgs \cup {" hh "}, i \in StepIndexArgs, v \in {0, 1} :
          LET r == setStep(State, t, i, v)
          IN SameGrid(r.st, State) => r.st.patternRevision = patternRevision
    /\ \A i \in CursorArgs : setCurrentStep(State, i).st.patternRevision = patternRevision
    /\ \A v \in BpmArgs : setBpm(State, v).st.patternRevision = patternRevision
    /\ \A patch \in PatchInputs(pattern) :
          LET r == set(State, patch)
          IN (patch.patternRevision = ABSENT /\ ~patch.pattern.has /\ SameGrid(r.st, State))
                => r.st.patternRevision = patternRevision
    /\ \A m \in MutatorsHere :
          LET r == update(State, m)
          IN (m.patch.patternRevision = ABSENT /\ r.st.tracks = tracks /\ r.st.steps = steps)
                => r.st.patternRevision = patternRevision
    /\ \A k \in BOOLEAN : BumpedOnce(resetPattern(State, k))
    /\ \A q \in PatternInputs \cup {rawPattern(pattern)}, k \in BOOLEAN :
          BumpedOnce(setPattern(State, q, k))
    /\ BumpedOnce(set(State, [EmptyPatch EXCEPT !.pattern = HasPattern(rawPattern(pattern))]))
    /\ \A t \in TrackInputs, k \in BOOLEAN : BumpedOnce(setTracks(State, t, k))
    /\ \A c \in ResolutionInputs : BumpedOnce(setResolution(State, c))
    /\ loadRockBasic(State).st.patternRevision # patternRevision

\* a stored hit is forced to its current value, and the identical pattern
\* is written back by setPattern and by set
C7_Witness ==
    /\ ValidCell(State, "hh", 0) /\ Cell(pattern, "hh", 0)
    /\ patternRevision = U32(0, 1)
    /\ setStep(State, "hh", 0, 1).st = State
    /\ LET r == setPattern(State, rawPattern(pattern), FALSE)
       IN SameGrid(r.st, State) /\ BumpedOnce(r)
    /\ LET r == set(State, [EmptyPatch EXCEPT !.pattern = HasPattern(rawPattern(pattern))])
       IN SameGrid(r.st, State) /\ BumpedOnce(r)

\* the structural resize rule between an old and a new grid: a cell in both
\* keeps its value, a new cell is false, the keys are the new track ids
ResizeRule(old, oldSteps, new) ==
    /\ DOMAIN new.pattern = Range(new.tracks)
    /\ \A id \in Range(new.tracks) :
          /\ DOMAIN new.pattern[id] = 1..new.steps
          /\ \A i \in 0..(new.steps - 1) :
                Cell(new.pattern, id, i) =
                    (IF id \in DOMAIN old /\ i < oldSteps THEN Cell(old, id, i) ELSE FALSE)

Structural(r) == r.st.steps # steps \/ r.st.tracks # tracks

\* the rule for the structural changes made by setResolution, set and update
\* (for update, the old grid is the entry pattern as the mutator left it)
ResizeRuleOfPatches ==
    /\ \A c \in ResolutionInputs :
          ResizeRule(pattern, steps, setResolution(State, c).st)
    /\ \A patch \in PatchInputs(pattern) :
          LET r == set(State, patch)
          IN Structural(r) => ResizeRule(pattern, steps, r.st)
    /\ \A m \in MutatorsHere :
          LET r == update(State, m)
          IN Structural(r) => ResizeRule(applyEdits(pattern, m.edits), steps, r.st)

\* C8 as stated: the resize rule is applied by every structural change,
\* setTracks with or without preservePattern included.
C8_Original ==
    /\ ResizeRuleOfPatches
    /\ \A t \in TrackInputs, p \in BOOLEAN :
          ResizeRule(pattern, steps, setTracks(State, t, p).st)

\* C8 amended: for every structural change made by setResolution, by
\* setTracks with preservePattern, or by a set/update that changes steps or
\* tracks, every cell that exists in both grids keeps its value, new cells
\* are false and cells that no longer exist are dropped; setTracks without
\* preservePattern leaves every cell false.
C8_ResizeRuleUniform ==
    /\ ResizeRuleOfPatches
    /\ \A t \in TrackInputs :
          /\ ResizeRule(pattern, steps, setTracks(State, t, TRUE).st)
          /\ ResizeRule(<<>>, steps, setTracks(State, t, FALSE).st)

\* hits are stored on a track that stays, and a set(patch) changes steps and
\* tracks at once, a setTracks keeps the track with and without preservePattern
C8_Witness ==
    /\ "hh" \in DOMAIN pattern /\ Cell(pattern, "hh", 0)
    /\ \E patch \in PatchInputs(pattern) :
          LET r == set(State, patch)
          IN /\ r.st.steps # steps /\ Cell(r.st.pattern, "hh", 0)
    /\ \E m \in MutatorsHere :
          LET r == update(State, m)
          IN /\ r.st.tracks # tracks /\ Cell(r.st.pattern, "hh", 0)
    /\ \E t \in TrackInputs :
          /\ setTracks(State, t, TRUE).st.tracks # tracks
          /\ Cell(setTracks(State, t, TRUE).st.pattern, "hh", 0)
          /\ ~Cell(setTracks(State, t, FALSE).st.pattern, "hh", 0)

\* the ids a caller's track list names: objects with a non-blank trimmed id
GivenIds(t) ==
    IF t.isArray THEN {Trim(t.v[k].id) : k \in {j \in 1..Len(t.v) : t.v[j].isObj}} \ {""}
    ELSE {}
\* first position of id in the caller's list
FirstAt(t, id) ==
    CHOOSE k \in 1..Len(t.v) :
        /\ t.v[k].isObj /\ Trim(t.v[k].id) = id
        /\ \A j \in 1..(k - 1) : ~(t.v[j].isObj /\ Trim(t.v[j].id) = id)

\* C9: setTracks(tracks, {preservePattern: true}) yields a pattern keyed
\* exactly by the new track ids; an id present before keeps its old array,
\* an id not present before is all-false, ids no longer listed are gone; the
\* new track order is the order given (the default tracks when the list
\* names no id).
C9_SetTracksPreserve ==
    \A t \in TrackInputs :
        LET r == setTracks(State, t, TRUE)
            new == r.st
        IN /\ new.steps = steps
           /\ Range(new.tracks) = (IF GivenIds(t) = {} THEN Range(DEFAULT_TRACKS) ELSE GivenIds(t))
           /\ GivenIds(t) = {} => new.tracks = DEFAULT_TRACKS
           /\ GivenIds(t) # {} =>
                 \A a, b \in 1..Len(new.tracks) :
                    a < b => FirstAt(t, new.tracks[a]) < FirstAt(t, new.tracks[b])
           /\ DOMAIN new.pattern = Range(new.tracks)
           /\ \A id \in Range(new.tracks) :
                 new.pattern[id] = (IF id \in DOMAIN pattern THEN pattern[id]
                                    ELSE [i \in 1..steps |-> FALSE])

\* with hits on hh and bd and three tracks, the list bd, hh is installed:
\* hh and bd keep their arrays, sn is gone; and from bd, hh the default list
\* brings sn back all-false
C9_Witness ==
    \/ /\ tracks = <<"hh", "sn", "bd">>
       /\ \E i \in 1..steps : pattern["hh"][i]
       /\ \E i \in 1..steps : pattern["bd"][i]
       /\ \E t \in TrackInputs :
             LET new == setTracks(State, t, TRUE).st
             IN /\ new.tracks = <<"bd", "hh">>
                /\ new.pattern["hh"] = pattern["hh"] /\ new.pattern["bd"] = pattern["bd"]
    \/ /\ tracks = <<"bd", "hh">>
       /\ \E i \in 1..steps : pattern["hh"][i]
       /\ patternRevision = U32Max
       /\ \E t \in TrackInputs :
             LET new == setTracks(State, t, TRUE).st
             IN /\ new.tracks = <<"hh", "sn", "bd">>
                /\ new.pattern["hh"] = pattern["hh"]
                /\ \A i \in 1..steps : ~new.pattern["sn"][i]

\* C10: setCurrentStep(i), and set({currentStep: i}) as used by the playback
\* tick callback, leave pattern, tracks, resolution, steps, bpm and
\* patternRevision unchanged for every i and emit no event tagged 'pattern'
\* or 'structure'.
C10_CursorWritesLeavePattern ==
    \A i \in CursorArgs :
        LET a == setCurrentStep(State, i)
            b == set(State, [EmptyPatch EXCEPT !.currentStep = i])
        IN /\ [a.st EXCEPT !.currentStep = currentStep] = State
           /\ [b.st EXCEPT !.currentStep = currentStep] = State
           /\ EventTypes(a.ev) \cap {"pattern", "structure"} = {}
           /\ EventTypes(b.ev) \cap {"pattern", "structure"} = {}
           /\ EventTypes(a.ev) = {"playhead"}

\* hits are stored and the revision has moved; a tick moves the cursor
C10_Witness ==
    /\ \E id \in DOMAIN pattern : \E i \in 1..steps : pattern[id][i]
    /\ patternRevision # U32Zero
    /\ bpm # DEFAULT_BPM
    /\ currentStep # MaxIndexArg
    /\ setCurrentStep(State, MaxIndexArg).st.currentStep = MaxIndexArg
    /\ set(State, [EmptyPatch EXCEPT !.currentStep = MaxIndexArg]).st.currentStep = MaxIndexArg

\* tempo values a caller passes: not a number, zero, negative, below, inside
\* and above the range, and the two ends of the range
BpmProbes == BpmArgs \cup {-5, 10, BPM_MIN, 120, BPM_MAX}

\* Number(v) || DEFAULT_BPM, clamped to the closed range
ClampedBpm(v) ==
    IF v = NaN \/ v = 0 THEN DEFAULT_BPM
    ELSE IF v < BPM_MIN THEN BPM_MIN
    ELSE IF v > BPM_MAX THEN BPM_MAX
    ELSE v

Rejected(t, i) == Trim(t) \notin DOMAIN pattern \/ i = NaN \/ i < 0 \/ i >= steps

\* C12: toggleStep, setStep and getStep called with a track id that is not
\* in the pattern or with an index outside [0, steps) return false, leave
\* the whole store state unchanged and emit no event.
C12_Original ==
    \A t \in KeyArgs, i \in StepIndexArgs \cup {40} :
        Rejected(t, i) =>
            /\ \A f \in ForceArgs :
                  LET r == toggleStep(State, t, i, f)
                  IN r.val = FALSE /\ r.st = State /\ r.ev = <<>> /\ r.inherited = inherited
            /\ \A v \in {0, 1} :
                  LET r == setStep(State, t, i, v)
                  IN r.val = FALSE /\ r.st = State /\ r.ev = <<>> /\ r.inherited = inherited
            /\ getStep(State, t, i) = FALSE

\* C13: no failure leaves the store mutually inconsistent: also after an
\* update whose mutator threw after writing bars or tracks, steps is the
\* product of the three factors, the keys of pattern are the track ids and
\* every array has length steps.
C13_Original ==
    /\ steps = bars * beatsPerBar * stepsPerBeat
    /\ DOMAIN pattern = Range(tracks)
    /\ \A id \in DOMAIN pattern : Len(pattern[id]) = steps

\* C14: resetPattern sets every cell of every current track to false, sets
\* currentStep to -1 unless keepPlayhead is true (then currentStep stays),
\* leaves tracks, resolution and bpm unchanged, and bumps the revision on
\* every call.
C14_ResetPatternClears ==
    \A k \in BOOLEAN :
        LET r == resetPattern(State, k)
        IN /\ DOMAIN r.st.pattern = Range(tracks)
           /\ \A id \in Range(tracks) :
                 /\ DOMAIN r.st.pattern[id] = 1..steps
                 /\ \A i \in 1..steps : r.st.pattern[id][i] = FALSE
           /\ r.st.currentStep = (IF k THEN currentStep ELSE -1)
           /\ r.st.tracks = tracks /\ r.st.bars = bars /\ r.st.beatsPerBar = beatsPerBar
           /\ r.st.stepsPerBeat = stepsPerBeat /\ r.st.steps = steps /\ r.st.bpm = bpm
           /\ BumpedOnce(r)

\* hits are stored and the cursor stands on a step: resetPattern keeps the
\* cursor with keepPlayhead and clears it without
C14_Witness ==
    /\ currentStep = MaxIndexArg
    /\ bpm # DEFAULT_BPM
    /\ tracks # DEFAULT_TRACKS
    /\ \E id \in DOMAIN pattern : \E i \in 1..steps : pattern[id][i]
    /\ resetPattern(State, TRUE).st.currentStep = MaxIndexArg
    /\ resetPattern(State, FALSE).st.currentStep = -1
    /\ \A id \in Range(tracks) : \A i \in 1..steps : ~resetPattern(State, TRUE).st.pattern[id][i]

\* element i of nextPattern[id] is there and truthy
GivenHit(q, id, i) ==
    /\ q.isObj /\ id \in DOMAIN q.m
    /\ q.m[id].isArray /\ i + 1 <= Len(q.m[id].v)
    /\ q.m[id].v[i + 1] # 0

\* C15: setPattern(nextPattern) replaces the whole pattern: for each
\* current track id, cell i (i < steps) is true exactly when nextPattern[id]
\* is an array whose element i is truthy; ids of nextPattern that are no
\* current track are dropped, tracks missing from nextPattern are all-false,
\* nothing of the previous pattern survives, and the revision is bumped on
\* every call.
C15_SetPatternReplaces ==
    \A q \in PatternInputs \cup {rawPattern(pattern)}, k \in BOOLEAN :
        LET r == setPattern(State, q, k)
        IN /\ DOMAIN r.st.pattern = Range(tracks)
           /\ \A id \in Range(tracks) :
                 /\ DOMAIN r.st.pattern[id] = 1..steps
                 /\ \A i \in 0..(steps - 1) :
                       Cell(r.st.pattern, id, i) = GivenHit(q, id, i)
           /\ r.st.tracks = tracks /\ r.st.steps = steps
           /\ BumpedOnce(r)

\* hits are stored where the new pattern has none (sn, and hh at step 2),
\* and the new pattern names an id that is no track and has a hit on hh
C15_Witness ==
    /\ tracks = DEFAULT_TRACKS /\ steps = DEFAULT_STEPS
    /\ Cell(pattern, "sn", 4) /\ Cell(pattern, "hh", 2)
    /\ \E q \in PatternInputs :
          LET r == setPattern(State, q, FALSE)
          IN /\ q.isObj /\ "zz" \in DOMAIN q.m
             /\ ~Cell(r.st.pattern, "sn", 4) /\ ~Cell(r.st.pattern, "hh", 2)
             /\ Cell(r.st.pattern, "hh", MaxIndexArg)
             /\ "zz" \notin DOMAIN r.st.pattern

\* step counts a caller writes directly
StepsWrites == {32, 1, 0, NaN}

\* C16: steps is never set independently of the three factors: a
\* set(patch) or update(mutator) that writes only steps leaves steps, every
\* pattern array and the pattern revision exactly as before.
C16_StepsWriteIgnored ==
    \A n \in StepsWrites :
        LET a == set(State, [EmptyPatch EXCEPT !.steps = n])
            b == update(State, [isFn |-> TRUE, edits |-> <<>>,
                                patch |-> [EmptyPatch EXCEPT !.steps = n]])
        IN /\ a.st.steps = steps /\ a.st.pattern = pattern
           /\ a.st.patternRevision = patternRevision
           /\ b.st.steps = steps /\ b.st.pattern = pattern
           /\ b.st.patternRevision = patternRevision
           /\ a.st = State /\ b.st = State
           /\ EventTypes(a.ev) = {"state"} /\ EventTypes(b.ev) = {"state"}

\* the example: bars = 1, beatsPerBar = 4, stepsPerBeat = 4 with hits stored
\* and the revision moved, and steps: 32 is written by set and by update
C16_Witness ==
    /\ bars = 1 /\ beatsPerBar = 4 /\ stepsPerBeat = 4 /\ steps = 16
    /\ patternRevision # U32Zero
    /\ \E id \in DOMAIN pattern : \E i \in 1..steps : pattern[id][i]
    /\ set(State, [EmptyPatch EXCEPT !.steps = 32]).st.steps = 16
    /\ update(State, [isFn |-> TRUE, edits |-> <<>>,
                      patch |-> [EmptyPatch EXCEPT !.steps = 32]]).st.steps = 16

\* a value in [0, 2^32), as its two 16-bit halves
IsUint32(u) == u.hi \in 0..(Half16 - 1) /\ u.lo \in 0..(Half16 - 1)

\* (u + 1) mod 2^32 on the halves
PlusOneMod32(u) ==
    IF u.lo < Half16 - 1 THEN [hi |-> u.hi, lo |-> u.lo + 1]
    ELSE IF u.hi < Half16 - 1 THEN [hi |-> u.hi + 1, lo |-> 0]
    ELSE [hi |-> 0, lo |-> 0]

\* revision numbers a caller writes with set({patternRevision: n})
RevisionWrites == {-1, -2, 0, 7, Half16, Half16 * 3 + 5, NaN}

\* C17: the pattern revision is always an integer in [0, 2^32), and every
\* bump sets it to (old + 1) mod 2^32, so a bump at 2^32 - 1 yields 0.
C17_RevisionWraps ==
    /\ IsUint32(patternRevision)
    /\ touchPattern(State).patternRevision = PlusOneMod32(patternRevision)
    /\ \A k \in BOOLEAN :
          resetPattern(State, k).st.patternRevision = PlusOneMod32(patternRevision)
    /\ \A c \in ResolutionInputs :
          setResolution(State, c).st.patternRevision = PlusOneMod32(patternRevision)
    /\ \A t \in TrackIdArgs, i \in StepIndexArgs :
          toggleStep(State, t, i, "none").st.patternRevision
              \in {patternRevision, PlusOneMod32(patternRevision)}
    /\ loadRockBasic(State).st.patternRevision
          \in {PlusOneMod32(patternRevision), PlusOneMod32(PlusOneMod32(patternRevision))}
    /\ \A n \in RevisionWrites :
          IsUint32(set(State, [EmptyPatch EXCEPT !.patternRevision = n]).st.patternRevision)
    /\ patternRevision = U32Max =>
          /\ touchPattern(State).patternRevision = U32Zero
          /\ \A t \in TrackInputs, k \in BOOLEAN :
                setTracks(State, t, k).st.patternRevision = U32Zero

\* the revision stands at 2^32 - 1 with a hit stored, and a toggle of a
\* cell takes it to 0
C17_Witness ==
    /\ patternRevision = U32Max
    /\ \E id \in DOMAIN pattern : \E i \in 1..steps : pattern[id][i]
    /\ ValidCell(State, "hh", 0)
    /\ toggleStep(State, "hh", 0, "none").st.patternRevision = U32Zero

\* C18: setTracks and setResolution bump the pattern revision exactly once
\* on every call, also when the call leaves the track ids, the step count
\* and every hit value identical.
C18_StructureCallsAlwaysBump ==
    /\ \A t \in TrackInputs, k \in BOOLEAN :
          LET r == setTracks(State, t, k)
          IN BumpedOnce(r) /\ Len(r.ev) = 1 /\ EventTypes(r.ev) = {"structure"}
    /\ \A c \in ResolutionInputs :
          LET r == setResolution(State, c)
          IN BumpedOnce(r) /\ Len(r.ev) = 1 /\ EventTypes(r.ev) = {"structure"}

\* with hits stored, a setResolution to the current resolution and a
\* setTracks with the current track list leave the grid as it was and bump
C18_Witness ==
    /\ \E id \in DOMAIN pattern : \E i \in 1..steps : pattern[id][i]
    /\ \E c \in ResolutionInputs :
          LET r == setResolution(State, c)
          IN /\ c.beatsPerBar = beatsPerBar /\ c.stepsPerBeat = stepsPerBeat
             /\ SameGrid(r.st, State) /\ BumpedOnce(r)
    /\ \E t \in TrackInputs :
          LET r == setTracks(State, t, TRUE)
          IN SameGrid(r.st, State) /\ BumpedOnce(r)
    /\ patternRevision # U32Zero

\* the tags of the events of one call, in the order of emission
Tags(ev) == [k \in 1..Len(ev) |-> ev[k].type]

FourTags == {"pattern", "structure", "playhead", "tempo"}

\* the events of a call r carry only the four tags, and each kind of change
\* the call made is announced under its tag
DeliveredByKind(r) ==
    /\ EventTypes(r.ev) \subseteq FourTags
    /\ (r.st.pattern # pattern /\ ~Structural(r)) => "pattern" \in EventTypes(r.ev)
    /\ (r.st.tracks # tracks \/ r.st.bars # bars \/ r.st.beatsPerBar # beatsPerBar
            \/ r.st.stepsPerBeat # stepsPerBeat) => "structure" \in EventTypes(r.ev)
    /\ r.st.currentStep # currentStep => "playhead" \in EventTypes(r.ev)
    /\ r.st.bpm # bpm => "tempo" \in EventTypes(r.ev)

\* C19 as stated: every event carries one of the four tags 'pattern',
\* 'structure', 'playhead', 'tempo', and a hit-value change is delivered as
\* 'pattern', a track or resolution change as 'structure', a cursor change
\* as 'playhead' and a tempo change as 'tempo', whichever public operation
\* (set and update included) made the change.
C19_Original ==
    /\ \A patch \in PatchInputs(pattern) : DeliveredByKind(set(State, patch))
    /\ \A m \in MutatorsHere : DeliveredByKind(update(State, m))
    /\ \A t \in TrackIdArgs, i \in StepIndexArgs, f \in ForceArgs :
          DeliveredByKind(toggleStep(State, t, i, f))
    /\ \A i \in CursorArgs : DeliveredByKind(setCurrentStep(State, i))
    /\ \A v \in BpmArgs : DeliveredByKind(setBpm(State, v))
    /\ \A t \in TrackInputs, k \in BOOLEAN : DeliveredByKind(setTracks(State, t, k))

\* C19 amended: every event carries one of the five tags 'pattern',
\* 'structure', 'playhead', 'tempo', 'state'.  toggleStep / setStep emit
\* one 'pattern' event exactly when the cell changed; setPattern and
\* resetPattern emit one 'pattern' event, loadRockBasic only 'pattern'
\* events; setTracks and setResolution emit one 'structure' event;
\* setCurrentStep emits one 'playhead' and setBpm one 'tempo' event.  set and
\* update end every call with one 'state' event, preceded by 'structure'
\* when steps or tracks changed, or (set only) by 'pattern' when the patch
\* has a pattern key and steps and tracks stayed; a cursor, tempo or (for
\* update) hit-value change they make is delivered as 'state' only.
C19_EventTags ==
    /\ \A t \in TrackIdArgs \cup {" hh "}, i \in StepIndexArgs, f \in ForceArgs :
          LET r == toggleStep(State, t, i, f)
          IN Tags(r.ev) = (IF r.st.pattern # pattern THEN <<"pattern">> ELSE <<>>)
    /\ \A t \in TrackIdArgs \cup {" hh "}, i \in StepIndexArgs, v \in {0, 1} :
          LET r == setStep(State, t, i, v)
          IN Tags(r.ev) = (IF r.st.pattern # pattern THEN <<"pattern">> ELSE <<>>)
    /\ \A q \in PatternInputs \cup {rawPattern(pattern)}, k \in BOOLEAN :
          Tags(setPattern(State, q, k).ev) = <<"pattern">>
    /\ \A k \in BOOLEAN : Tags(resetPattern(State, k).ev) = <<"pattern">>
    /\ EventTypes(loadRockBasic(State).ev) = {"pattern"}
    /\ \A t \in TrackInputs, k \in BOOLEAN : Tags(setTracks(State, t, k).ev) = <<"structure">>
    /\ \A c \in ResolutionInputs : Tags(setResolution(State, c).ev) = <<"structure">>
    /\ \A i \in CursorArgs : Tags(setCurrentStep(State, i).ev) = <<"playhead">>
    /\ \A v \in BpmArgs : Tags(setBpm(State, v).ev) = <<"tempo">>
    /\ \A patch \in PatchInputs(pattern) :
          LET r == set(State, patch)
          IN Tags(r.ev) =
                (IF ~patch.isObj THEN <<>>
                 ELSE IF Structural(r) THEN <<"structure", "state">>
                 ELSE IF patch.pattern.has THEN <<"pattern", "state">>
                 ELSE <<"state">>)
    /\ \A m \in MutatorsHere :
          LET r == update(State, m)
          IN Tags(r.ev) = (IF Structural(r) THEN <<"structure", "state">> ELSE <<"state">>)

\* the cursor is off step MaxIndexArg and the tempo off its maximum: a set
\* moves the cursor and is delivered as 'state' alone, an update changes a
\* hit value and the tempo and is delivered as 'state' alone
C19_Witness ==
    /\ currentStep # MaxIndexArg /\ bpm # BPM_MAX /\ MaxIndexArg < steps
    /\ patternRevision # U32Zero
    /\ LET r == set(State, [EmptyPatch EXCEPT !.currentStep = MaxIndexArg])
       IN r.st.currentStep = MaxIndexArg /\ Tags(r.ev) = <<"state">>
    /\ \E m \in MutatorsHere :
          LET r == update(State, m)
          IN r.st.pattern # pattern /\ r.st.bpm # bpm /\ Tags(r.ev) = <<"state">>

AllTrue16 == RawArr([i \in 1..STEPS_PER_BAR |-> 1])

\* notes that start a hit, and notes that continue one
Heads(notes) == {k \in 1..Len(notes) : ~notes[k].rest /\ ~notes[k].hidden}
Continuations(notes) == {k \in 1..Len(notes) : ~notes[k].rest /\ notes[k].hidden}

\* C20 as stated: an all-true 16-step array yields, in each of the 4 beats,
\* one quarter-duration hit at the beat start followed by 3 continuation
\* sixteenth-duration events: 4 head events and 12 continuation events.
C20_Original ==
    (voiceSteps = AllTrue16 /\ voiceNotes # <<>>) =>
        /\ Cardinality(Heads(voiceNotes)) = 4
        /\ Cardinality(Continuations(voiceNotes)) = 12
        /\ \A k \in Heads(voiceNotes) :
              voiceNotes[k].duration = "q" /\ voiceNotes[k].at % STEPS_PER_BEAT = 0
        /\ \A k \in Continuations(voiceNotes) : voiceNotes[k].duration = "16"

\* C20 amended: for stepsPerBeat = 4 an all-true 16-step array yields 16
\* hit events of sixteenth duration, one at every step, none of them a
\* continuation: 16 head events and no continuation event.
C20_AllTrueIsSixteenHeads ==
    (voiceSteps = AllTrue16 /\ voiceNotes # <<>>) =>
        /\ Len(voiceNotes) = STEPS_PER_BAR
        /\ \A k \in 1..Len(voiceNotes) :
              /\ voiceNotes[k].duration = "16" /\ voiceNotes[k].len = 1
              /\ voiceNotes[k].at = k - 1
              /\ ~voiceNotes[k].rest /\ ~voiceNotes[k].hidden
        /\ Cardinality(Heads(voiceNotes)) = STEPS_PER_BAR
        /\ Continuations(voiceNotes) = {}

\* the all-true array has been transcribed
C20_Witness ==
    /\ voiceSteps = AllTrue16
    /\ Len(voiceNotes) = STEPS_PER_BAR
    /\ voiceNotes[1].inst = "hh"

\* the 16 steps the transcription reads, and the steps that hold a hit
Read16 == normalize16(voiceSteps)
HitSteps == {p \in 0..(STEPS_PER_BAR - 1) : Read16[p + 1] = 1}
\* the first hit after step p, or the end of the bar
HitAfter(p) ==
    IF \E q \in HitSteps : q > p
    THEN CHOOSE q \in HitSteps : q > p /\ \A x \in HitSteps : x > p => q <= x
    ELSE STEPS_PER_BAR
\* the steps a note covers
Covers(n) == n.at..(n.at + n.len - 1)

\* C22: transcribing an all-false 16-step array yields exactly 4 events,
\* each a quarter-duration rest, starting at steps 0, 4, 8 and 12, none
\* marked as a continuation.
C22_AllFalseIsFourQuarterRests ==
    (HitSteps = {} /\ voiceNotes # <<>>) =>
        /\ Len(voiceNotes) = 4
        /\ \A k \in 1..4 :
              /\ voiceNotes[k].rest /\ voiceNotes[k].duration = "q"
              /\ voiceNotes[k].len = STEPS_PER_BEAT
              /\ voiceNotes[k].at = (k - 1) * STEPS_PER_BEAT
              /\ ~voiceNotes[k].hidden

\* a 16-step array without a hit has been transcribed
C22_Witness ==
    /\ voiceSteps = RawArr([i \in 1..STEPS_PER_BAR |-> 0])
    /\ Len(voiceNotes) = 4
    /\ voiceNotes[4].rest /\ voiceNotes[4].at = 12

\* C23: for every 16-step boolean array, every event of the transcription
\* has length >= 1 and lies inside a single beat, and the events are
\* emitted in strictly increasing start order.
C23_EventsInsideBeatsInOrder ==
    /\ \A k \in 1..Len(voiceNotes) :
          /\ voiceNotes[k].len >= 1
          /\ voiceNotes[k].at \div STEPS_PER_BEAT =
                (voiceNotes[k].at + voiceNotes[k].len - 1) \div STEPS_PER_BEAT
    /\ \A k \in 1..(Len(voiceNotes) - 1) : voiceNotes[k].at < voiceNotes[k + 1].at

\* a hit on the third step of a beat, sustained over the beat boundary,
\* has been transcribed: its pieces end and start at the boundary
C23_Witness ==
    /\ Read16[3] = 1 /\ HitAfter(2) > 5
    /\ \E k \in 1..(Len(voiceNotes) - 1) :
          /\ voiceNotes[k].at = 2 /\ voiceNotes[k].len = 2
          /\ voiceNotes[k + 1].at = 4 /\ voiceNotes[k + 1].hidden

\* C24: a hit run starting at a true index p covers exactly the steps from
\* p up to the next true index after p or 16, and rest events cover exactly
\* the steps before the first true step; within each hit run the first
\* piece starts at p and is not a continuation, every later piece is one,
\* no rest piece is a continuation, and the number of non-continuation hit
\* events equals the number of true steps.
C24_RunsAndHeads ==
    voiceNotes # <<>> =>
        LET Pieces(p) == {k \in 1..Len(voiceNotes) :
                             voiceNotes[k].at >= p /\ voiceNotes[k].at < HitAfter(p)}
            Rests == {k \in 1..Len(voiceNotes) : voiceNotes[k].rest}
        IN /\ \A p \in HitSteps :
                 /\ UNION {Covers(voiceNotes[k]) : k \in Pieces(p)} = p..(HitAfter(p) - 1)
                 /\ \A k \in Pieces(p) :
                       /\ ~voiceNotes[k].rest
                       /\ voiceNotes[k].hidden <=> voiceNotes[k].at # p
                 /\ \A j, k \in Pieces(p) :
                       j # k => Covers(voiceNotes[j]) \cap Covers(voiceNotes[k]) = {}
           /\ UNION {Covers(voiceNotes[k]) : k \in Rests} = 0..(HitAfter(-1) - 1)
           /\ \A k \in Rests : ~voiceNotes[k].hidden
           /\ Cardinality(Heads(voiceNotes)) = Cardinality(HitSteps)

\* an array with a rest before its first hit and a hit sustained over two
\* beat boundaries has been transcribed
C24_Witness ==
    /\ HitSteps = {2, 13, 14}
    /\ Cardinality(Heads(voiceNotes)) = 3
    /\ Cardinality(Continuations(voiceNotes)) = 3
    /\ Cardinality({k \in 1..Len(voiceNotes) : voiceNotes[k].rest}) = 1

\* the steps a duration string stands for in 4/4 with sixteenth steps
DurationSteps(d) ==
    CASE d = "w" -> 16
      [] d = "h" -> 8
      [] d = "q" -> 4
      [] d = "8" -> 2
      [] d = "16" -> 1

RECURSIVE StepsUpTo(_, _)
StepsUpTo(notes, k) ==
    IF k = 0 THEN 0 ELSE DurationSteps(notes[k].duration) + StepsUpTo(notes, k - 1)

\* C32: for every 16-step array the emitted events tile the bar exactly:
\* the first event starts at step 0, each next event starts where the
\* previous one ends, and the lengths sum to 16, with hidden continuation
\* events counted like any other.
C32_EventsTileTheBar ==
    voiceNotes # <<>> =>
        /\ voiceNotes[1].at = 0
        /\ \A k \in 1..(Len(voiceNotes) - 1) :
              voiceNotes[k + 1].at =
                 voiceNotes[k].at + DurationSteps(voiceNotes[k].duration)
        /\ StepsUpTo(voiceNotes, Len(voiceNotes)) = STEPS_PER_BAR
        /\ \A k \in 1..Len(voiceNotes) :
              /\ voiceNotes[k].at = StepsUpTo(voiceNotes, k - 1)
              /\ voiceNotes[k].len = DurationSteps(voiceNotes[k].duration)

\* a rest, a hit sustained over beat boundaries and hidden continuations
\* have been transcribed and fill the bar
C32_Witness ==
    /\ HitSteps = {1}
    /\ Len(voiceNotes) = 6
    /\ voiceNotes[1].rest /\ voiceNotes[2].duration = "8"
    /\ voiceNotes[3].hidden /\ voiceNotes[6].hidden /\ voiceNotes[6].at = 12
    /\ StepsUpTo(voiceNotes, 6) = STEPS_PER_BAR

\* the sequence of the powers of two in the binary notation of L, largest
\* first
GreedyReference(L) ==
    LET bits == {b \in {16, 8, 4, 2, 1} : (L \div b) % 2 = 1}
        rank(b) == Cardinality({c \in bits : c > b}) + 1
    IN [k \in 1..Cardinality(bits) |-> CHOOSE b \in bits : rank(b) = k]

\* C33: decomposeSteps(L) equals the greedy largest-first reference for
\* every L in 0..16: a non-increasing sequence of members of
\* {16, 8, 4, 2, 1} whose sum is L; for the chunks 1..4 of the transcription
\* the results are [1], [2], [2,1], [4], so only quarter, eighth and
\* sixteenth durations are emitted and the filter s <= 4 drops no part.
C33_GreedyDecomposition ==
    /\ \A L \in 0..STEPS_PER_BAR :
          LET parts == decomposeSteps(L)
          IN /\ parts = GreedyReference(L)
             /\ \A k \in 1..Len(parts) : parts[k] \in {16, 8, 4, 2, 1}
             /\ \A k \in 1..(Len(parts) - 1) : parts[k] >= parts[k + 1]
             /\ SumFirst(parts, Len(parts)) = L
    /\ decomposeSteps(1) = <<1>> /\ decomposeSteps(2) = <<2>>
    /\ decomposeSteps(3) = <<2, 1>> /\ decomposeSteps(4) = <<4>>
    /\ \A c \in 1..STEPS_PER_BEAT :
          SelectSeq(decomposeSteps(c), LAMBDA p : p <= 4) = decomposeSteps(c)
    /\ \A k \in 1..Len(voiceNotes) :
          /\ voiceNotes[k].duration \in {"q", "8", "16"}
          /\ voiceNotes[k].len \in {4, 2, 1}

\* a chunk of three steps has been transcribed as an eighth and a
\* sixteenth, next to quarters
C33_Witness ==
    /\ \E k \in 1..(Len(voiceNotes) - 1) :
          /\ voiceNotes[k].at % STEPS_PER_BEAT = 1
          /\ voiceNotes[k].duration = "8" /\ voiceNotes[k + 1].duration = "16"
          /\ ~voiceNotes[k].rest /\ ~voiceNotes[k].hidden /\ voiceNotes[k + 1].hidden
    /\ \E k \in 1..Len(voiceNotes) : voiceNotes[k].duration = "q"
    /\ HitSteps = {5}

\* ------------------------------------------------------------------------
\* Properties of the page: store, gate and notation together
\* ------------------------------------------------------------------------
\* a note as the event it stands for: hit or rest, duration, start, and
\* whether it continues a hit
Event(n) ==
    [kind |-> IF n.rest THEN "rest" ELSE "hit", duration |-> n.duration,
     at |-> n.at, continuation |-> ~n.rest /\ n.hidden]
Events(notes) == [k \in 1..Len(notes) |-> Event(notes[k])]
\* an event without its continuation mark
Plain(e) == <<e.kind, e.duration, e.at>>

\* the default grid with exactly the kick on step 0 and the snare on step 4
KickAndSnare ==
    /\ tracks = DEFAULT_TRACKS /\ steps = DEFAULT_STEPS
    /\ \A id \in DOMAIN pattern : \A i \in 0..(steps - 1) :
          Cell(pattern, id, i) <=> (<<id, i>> \in {<<"bd", 0>>, <<"sn", 4>>})

\* the notation on screen was drawn from the stored pattern
DrawnCurrent == score # NoScore /\ lastHash = hashPattern(getPatternFromState(State))

\* C21 as stated: from the default state, after toggleStep('bd', 0, true)
\* and toggleStep('sn', 4, true), the transcription of bd is exactly hit
\* quarter @0, rest quarter @4, @8, @12 and that of sn is exactly rest
\* quarter @0, hit quarter @4, rest quarter @8, @12.
C21_Original ==
    (KickAndSnare /\ DrawnCurrent) =>
        /\ [k \in 1..Len(score.bd) |-> Plain(Event(score.bd[k]))] =
              << <<"hit", "q", 0>>, <<"rest", "q", 4>>, <<"rest", "q", 8>>, <<"rest", "q", 12>> >>
        /\ [k \in 1..Len(score.sn) |-> Plain(Event(score.sn[k]))] =
              << <<"rest", "q", 0>>, <<"hit", "q", 4>>, <<"rest", "q", 8>>, <<"rest", "q", 12>> >>

\* C21 amended: from the default state, after the kick was toggled on at
\* step 0 and the snare at step 4, the transcription of bd is exactly a
\* quarter hit @0 followed by quarter continuations of that hit @4, @8 and
\* @12, and that of sn is a quarter rest @0, a quarter hit @4 and quarter
\* continuations @8 and @12: a hit sustains to the end of the bar, and no
\* rest follows it.
C21_HitsSustainToBarEnd ==
    (KickAndSnare /\ DrawnCurrent) =>
        /\ Events(score.bd) =
              << [kind |-> "hit", duration |-> "q", at |-> 0, continuation |-> FALSE],
                 [kind |-> "hit", duration |-> "q", at |-> 4, continuation |-> TRUE],
                 [kind |-> "hit", duration |-> "q", at |-> 8, continuation |-> TRUE],
                 [kind |-> "hit", duration |-> "q", at |-> 12, continuation |-> TRUE] >>
        /\ Events(score.sn) =
              << [kind |-> "rest", duration |-> "q", at |-> 0, continuation |-> FALSE],
                 [kind |-> "hit", duration |-> "q", at |-> 4, continuation |-> FALSE],
                 [kind |-> "hit", duration |-> "q", at |-> 8, continuation |-> TRUE],
                 [kind |-> "hit", duration |-> "q", at |-> 12, continuation |-> TRUE] >>

\* both cells were toggled on from the default state and a frame has drawn
\* the result
C21_Witness ==
    /\ KickAndSnare /\ DrawnCurrent
    /\ patternRevision = U32(0, 2)
    /\ ~queued /\ lastPatternRev = patternRevision
    /\ Len(score.bd) = 4 /\ Len(score.sn) = 4

\* the characters of a hash that stand for the array of one voice
HashPart(h, inst) ==
    CASE inst = "hh" -> SubSeq(h, 1, STEPS_PER_BAR)
      [] inst = "sn" -> SubSeq(h, STEPS_PER_BAR + 2, 2 * STEPS_PER_BAR + 1)
      [] OTHER -> SubSeq(h, 2 * STEPS_PER_BAR + 3, 3 * STEPS_PER_BAR + 2)

\* the events of a voice: start, length, rest flag and continuation flag
Timeline(notes) ==
    [k \in 1..Len(notes) |->
        [at |-> notes[k].at, len |-> notes[k].len, rest |-> notes[k].rest,
         continuation |-> ~notes[k].rest /\ notes[k].hidden]]

NextFrame == animationFrame(rafCallbacks, stateGet(State), Gate)

\* since the last frame only the cursor was written
OnlyCursor == win.toggles = 0 /\ ~win.other
\* since the last frame one grid click changed a value, and nothing else
\* but cursor writes happened; the click has requested the notation
OneToggle == win.toggles = 1 /\ ~win.other /\ queued

\* C26 as stated: cursor writes between two display frames, however many,
\* produce no transcription and no redraw, while one toggleStep that
\* changes a value, followed by the render request of the grid, produces
\* exactly one transcription at the next frame.
C26_Original ==
    /\ (OnlyCursor /\ ~queued) => (NextFrame.renders = 0 /\ NextFrame.transcriptions = 0)
    /\ \A i \in AppCursorArgs :
          LET s1 == set(setCurrentStep(State, i).st, [EmptyPatch EXCEPT !.currentStep = i]).st
              f1 == animationFrame(rafCallbacks, stateGet(s1), Gate)
          IN f1.renders = NextFrame.renders /\ f1.transcriptions = NextFrame.transcriptions
    /\ OneToggle => NextFrame.transcriptions = 1

\* the hits the notation shows differ from the stored ones
Stale == hashPattern(getPatternFromState(State)) # lastHash

\* C28 as stated: after any sequence of store mutations followed by a
\* render request, if the stored hit values differ from those last drawn,
\* the gate invokes the notation render at the next frame, so that the
\* drawn pattern equals the stored one; in revision mode the gate redraws
\* if and only if patternRevision differs from the last-seen revision.
C28_Original ==
    /\ (queued /\ Stale) =>
          /\ NextFrame.renders = 1
          /\ NextFrame.lastHash = hashPattern(getPatternFromState(State))
    /\ (queued /\ exposesRevision) =>
          (NextFrame.renders = 1 <=> patternRevision # lastPatternRev)

\* the track list or a resolution factor of st differs from the stored one
StructureDiffers(st) ==
    \/ st.tracks # tracks
    \/ st.bars # bars \/ st.beatsPerBar # beatsPerBar \/ st.stepsPerBeat # stepsPerBeat

\* the gate has seen the state as it is: a run now would not redraw
GateSettled == ~renderNotation(stateGet(State), lastPatternRev, lastPatternSig).render

\* C29 as stated: after a change of the track list or of any resolution
\* factor, also one that keeps the step count and the hh/sn/bd hit indices,
\* the next gate run redraws, in revision mode and in signature-fallback
\* mode alike.
C29_Original ==
    GateSettled =>
        \A r \in { setResolution(State, c) : c \in AppResolutions }
                 \cup { setTracks(State, t, TRUE) : t \in AppTracks } :
            StructureDiffers(r.st)
                => renderNotation(stateGet(r.st), lastPatternRev, lastPatternSig).render

\* ------------------------------------------------------------------------
\* Properties of the timing helpers
\* ------------------------------------------------------------------------
\* C27: for a rafThrottle-wrapped function, any number k >= 1 of calls
\* between two animation frames schedules exactly one frame callback, which
\* runs the function exactly once at the next frame, with the arguments of
\* the last call and reading the state as it is at that frame; nothing runs
\* at call time and at most one callback is pending at any moment.
C27_TrailingEdgeCoalescing ==
    /\ rafCallbacks <= 1
    /\ queued <=> rafCallbacks = 1
    /\ queued => (calls # <<>> /\ fnRuns = <<>>)
    /\ (~queued /\ calls # <<>>) =>
          /\ Len(fnRuns) = 1
          /\ fnRuns[1].args = calls[Len(calls)]
          /\ win.ticks = 0 => fnRuns[1].seen = currentStep

\* several calls with different arguments were made in one window, the
\* cursor was written, and the frame has run the function once
C27_Witness ==
    /\ ~queued /\ Len(calls) >= 2 /\ calls[1] # calls[Len(calls)]
    /\ fnRuns = <<[args |-> calls[Len(calls)], seen |-> MaxIndexArg]>>
    /\ currentStep = MaxIndexArg

\* C30: at most one propagation timer is pending at any time, every new
\* call cancels the pending one, and a burst of calls each arriving before
\* the previous delay expires results in exactly one call of the engine's
\* setBpm, carrying the value of the last call.
C30_DebounceSupersedes ==
    /\ Cardinality(timers) <= 1
    /\ timers # {} =>
          /\ timers = {[id |-> timerId, args |-> burst[Len(burst)]]}
          /\ engineCalls = <<>>
    /\ (timers = {} /\ burst # <<>>) =>
          /\ engineCalls = <<burst[Len(burst)]>>
          /\ bpm = burst[Len(burst)]

\* a burst of several calls with different values has ended in one call of
\* the engine
C30_Witness ==
    /\ timers = {} /\ Len(burst) >= 2 /\ burst[1] # burst[Len(burst)]
    /\ engineCalls = <<burst[Len(burst)]>>

\* C31: a tempo input with a finite value v updates the stored bpm to
\* clamp(v, 40, 240) when the handler returns, with the timer of the debounce
\* still pending and whether or not playback is active; the debounced
\* propagation is scheduled only when isPlaying is true.
C31_TempoStoredAtOnce ==
    \A raw \in BpmInputs :
       isFinite(raw) =>
          LET h == onBpmInput(State, [t |-> timerId, timers |-> timers], isPlaying, raw)
          IN /\ h.r.st.bpm = clamp(raw, 40, 240)
             /\ h.scheduled <=> isPlaying
             /\ isPlaying => h.timers # {}
             /\ ~isPlaying => (h.timers = timers /\ h.t = timerId)

\* an input has stored its clamped value and its propagation is pending
C31_Witness ==
    /\ isPlaying /\ timers # {} /\ engineCalls = <<>>
    /\ burst = <<BPM_MAX>> /\ bpm = BPM_MAX

\* ------------------------------------------------------------------------
\* Properties of the loops of buildVoice
\* ------------------------------------------------------------------------
\* the call in progress is back at the head of a loop after a pass
AtOuterHead == scan.pc = "outer" /\ scan.head >= 0
AtInnerHead == scan.pc = "inner" /\ scan.before <= STEPS_PER_BAR

\* C34: buildVoice terminates for every 16-step input: the scan position
\* strictly increases on every iteration of the outer loop, the remaining
\* length strictly decreases on every iteration of the inner loop, and the
\* branch of a zero-length segment is never taken.
C34_BuildVoiceTerminates ==
    /\ [](AtOuterHead => scan.pos > scan.head)
    /\ [](AtInnerHead => scan.remaining < scan.before)
    /\ [](scan.zero = 0)
    /\ (scan.pc # "idle") ~> (scan.pc = "idle" /\ voiceNotes = scan.notes)

\* a call on a bar with rests and sustained hits has run both loops and
\* returned the notes of the transcription
C34_Witness ==
    /\ scan.pc = "idle" /\ scan.stepArr # <<>>
    /\ \E i, j \in 1..STEPS_PER_BAR : scan.stepArr[i] = 1 /\ scan.stepArr[j] = 0
    /\ scan.stepArr[1] = 0
    /\ voiceNotes = buildVoice(scan.inst, scan.stepArr).notes
    /\ Len(voiceNotes) > 4

\* ------------------------------------------------------------------------
\* Properties of the revision over all public operations
\* ------------------------------------------------------------------------
\* what a call leaves: the state and the events delivered to a subscriber
Outcome(r) == [st |-> r.st, ev |-> r.ev]

\* the outcomes of every public operation called in the current state, for
\* patches and mutators that do not themselves write patternRevision
PublicOutcomes ==
    { Outcome(set(State, p)) : p \in {q \in PatchInputs(pattern) : q.patternRevision = ABSENT} }
    \cup { Outcome(update(State, m)) :
              m \in {n \in MutatorsHere : n.patch.patternRevision = ABSENT} }
    \cup { Outcome(update(State, [isFn |-> FALSE, edits |-> <<>>, patch |-> EmptyPatch])) }
    \cup { Outcome(resetPattern(State, k)) : k \in BOOLEAN }
    \cup { Outcome(setPattern(State, q, k)) :
              q \in PatternInputs \cup {rawPattern(pattern)}, k \in BOOLEAN }
    \cup { Outcome(toggleStep(State, id, i, f)) :
              id \in TrackIdArgs, i \in StepIndexArgs, f \in ForceArgs }
    \cup { Outcome(setStep(State, id, i, v)) :
              id \in TrackIdArgs \cup {" hh "}, i \in StepIndexArgs, v \in {0, 1} }
    \cup { Outcome(setCurrentStep(State, i)) : i \in CursorArgs }
    \cup { Outcome(setBpm(State, v)) : v \in BpmArgs }
    \cup { Outcome(setTracks(State, t, k)) : t \in TrackInputs, k \in BOOLEAN }
    \cup { Outcome(setResolution(State, c)) : c \in ResolutionInputs }
    \cup { Outcome(loadRockBasic(State)) }

\* the events of a call that carry a pattern tag, in order of delivery
Notifications(ev) == SelectSeq(ev, LAMBDA e : e.type \in {"pattern", "structure"})

RECURSIVE U32Plus(_, _)
U32Plus(u, n) == IF n = 0 THEN u ELSE U32Inc(U32Plus(u, n - 1))

\* C35: with a subscriber registered, every increment of patternRevision
\* delivers exactly one event tagged 'pattern' or 'structure' whose
\* patternRevision field equals the new value, and no event with either tag
\* is delivered without an increment.
C35_BumpsAndNotificationsPair ==
    \A o \in PublicOutcomes :
       LET n == Notifications(o.ev)
       IN /\ o.st.patternRevision = U32Plus(patternRevision, Len(n))
          /\ \A k \in 1..Len(n) : n[k].patternRevision = U32Plus(patternRevision, k)

\* at 16 steps and a revision past zero: loadRockBasic delivers two pattern
\* events with the two values the revision takes, a resolution change one
\* structure event, and a cursor write none
C35_Witness ==
    /\ steps = 16 /\ patternRevision = U32(0, 1)
    /\ Notifications(loadRockBasic(State).ev) =
          <<[type |-> "pattern", patternRevision |-> U32(0, 2)],
            [type |-> "pattern", patternRevision |-> U32(0, 3)]>>
    /\ Notifications(setResolution(State, Config(2, NaN, NaN)).ev) =
          <<[type |-> "structure", patternRevision |-> U32(0, 2)]>>
    /\ Notifications(setCurrentStep(State, MaxIndexArg).ev) = <<>>

\* C36 as stated: a single call of any public store operation changes
\* patternRevision by 0 or by exactly +1 (mod 2^32), never by more; this
\* includes loadRockBasic when steps = 16.
C36_Original ==
    \A o \in PublicOutcomes :
       o.st.patternRevision \in {patternRevision, U32Inc(patternRevision)}

\* C37 as stated: a set(patch) whose patch contains a pattern always
\* installs that pattern: afterwards each current track's array equals the
\* patch's array for that id coerced to booleans and cut or zero-filled to
\* the resulting steps, also when the same patch changes a resolution factor
\* or the track list.
C37_Original ==
    \A patch \in {p \in PatchInputs(pattern) : p.pattern.has} :
       LET r == set(State, patch)
       IN \A id \in Range(r.st.tracks) :
             /\ DOMAIN r.st.pattern[id] = 1..r.st.steps
             /\ \A i \in 0..(r.st.steps - 1) :
                   Cell(r.st.pattern, id, i) = GivenHit(patch.pattern, id, i)

\* C38 as stated: applying a preset with DrumPresets.apply(name, DrumState)
\* from any reachable state that has the default tracks hh, sn, bd, whatever
\* the resolution, leaves the store with steps = 16, currentStep = -1, bpm
\* equal to the preset's bpm, and hh/sn/bd arrays equal to the preset's
\* 16-step arrays.
C38_Original ==
    tracks = DEFAULT_TRACKS =>
       \A name \in PresetNames :
          LET r == presetsApply(State, name)
          IN /\ r.st.steps = 16 /\ r.st.currentStep = -1
             /\ r.st.bpm = presetBpm(name)
             /\ \A id \in {"hh", "sn", "bd"} :
                   r.st.pattern[id] = [i \in 1..16 |-> presetPattern(name)[id][i] = 1]

\* ------------------------------------------------------------------------
\* Properties of the tempo across the handlers of the page
\* ------------------------------------------------------------------------
\* C39 as stated: when a pending debounced tempo propagation fires, the
\* value it passes to the playback engine equals the store's bpm at that
\* moment, so a propagation scheduled by an earlier tempo input never
\* reverts a bpm written later by onBpmChange or by applying a preset.
\* (A pending timer may fire in any state, so each must carry the bpm.)
C39_Original == \A x \in timers : x.args = bpm

\* C40: from the stopped state, two togglePlay invocations under every
\* interleaving, the second possibly arriving while the first awaits
\* Audio.start(), start the engine at most once and end with isPlaying false
\* and currentStep -1.
C40_Original ==
    (page.invoked = 2 /\ page.awaiting = 0)
        => (isPlaying = FALSE /\ currentStep = -1 /\ page.transportStarts <= 1)

====
